---- MODULE Spec2Model ----
(***************************************************************************)
(* Model of the secflow validator service: internal/validator (Validator,  *)
(* Processor, Checker) together with the bus and the hosting API it talks  *)
(* to.  Strings are sequences of one-character strings, a message payload  *)
(* is an abstract JSON text, and every blocking call of the code is one    *)
(* step of the process that makes it.                                      *)
(***************************************************************************)
EXTENDS Integers, Sequences, FiniteSets, TLC

(***************************************************************************)
(* Bounds of the model.                                                    *)
(***************************************************************************)
\* number of messages the producer publishes on the source subject
MaxMsgs == 2
\* number of Start/Stop invocations the owner of the Validator makes; at most
\* two of them are Start (a third Start adds one more subscription of the kind
\* the second one adds)
MaxCalls == 3
\* length of the owner and repository names the clone URLs are built from
MaxNameLen == 2
\* number of pages the hosting API lists an organization on, and number of
\* repositories on one page
MaxPages == 2
MaxPerPage == 2

\* number of Validator.Wait invocations in a run
MaxWaits == 2

(***************************************************************************)
(* Strings.                                                                *)
(***************************************************************************)
HttpsPrefix == <<"h","t","t","p","s",":","/","/","g","i","t","h","u","b",".","c","o","m","/">>
SshPrefix == <<"g","i","t","@","g","i","t","h","u","b",".","c","o","m",":">>
GitSuffix == <<".","g","i","t">>

\* strings.HasPrefix
HasPrefix(s, p) == Len(s) >= Len(p) /\ SubSeq(s, 1, Len(p)) = p

\* strings.HasSuffix
HasSuffix(s, x) == Len(s) >= Len(x) /\ SubSeq(s, Len(s) - Len(x) + 1, Len(s)) = x

\* strings.TrimPrefix
TrimPrefix(s, p) == IF HasPrefix(s, p) THEN SubSeq(s, Len(p) + 1, Len(s)) ELSE s

\* strings.TrimSuffix
TrimSuffix(s, x) == IF HasSuffix(s, x) THEN SubSeq(s, 1, Len(s) - Len(x)) ELSE s

\* strings.Split(s, sep) for a one-character separator: always at least one part
RECURSIVE Split(_, _)
Split(s, sep) ==
    IF \E i \in 1..Len(s) : s[i] = sep
    THEN LET i == CHOOSE k \in 1..Len(s) : s[k] = sep /\ \A j \in 1..(k - 1) : s[j] # sep
         IN  <<SubSeq(s, 1, i - 1)>> \o Split(SubSeq(s, i + 1, Len(s)), sep)
    ELSE <<s>>

(***************************************************************************)
(* Processor.extractOwnerFromURL: [err, owner].                            *)
(***************************************************************************)
\* a slip that reports the unrecognized form as an empty owner
extractOwnerFromURL_NoError(cloneURL) ==
    IF HasPrefix(cloneURL, HttpsPrefix)
    THEN [err |-> FALSE,
          owner |-> Split(TrimSuffix(TrimPrefix(cloneURL, HttpsPrefix), GitSuffix), "/")[1]]
    ELSE IF HasPrefix(cloneURL, SshPrefix)
    THEN [err |-> FALSE,
          owner |-> Split(TrimSuffix(TrimPrefix(cloneURL, SshPrefix), GitSuffix), "/")[1]]
    ELSE [err |-> FALSE, owner |-> <<>>]

\* the SSH form is not handled
extractOwnerFromURL_HttpsOnly(cloneURL) ==
    IF HasPrefix(cloneURL, HttpsPrefix)
    THEN [err |-> FALSE,
          owner |-> Split(TrimSuffix(TrimPrefix(cloneURL, HttpsPrefix), GitSuffix), "/")[1]]
    ELSE [err |-> TRUE, owner |-> <<>>]

\* an empty owner is reported as an error
extractOwnerFromURL_EmptyIsError(cloneURL) ==
    IF HasPrefix(cloneURL, HttpsPrefix)
    THEN LET path == TrimSuffix(TrimPrefix(cloneURL, HttpsPrefix), GitSuffix)
             parts == Split(path, "/")
         IN  IF Len(parts) >= 1 /\ parts[1] # <<>>
             THEN [err |-> FALSE, owner |-> parts[1]]
             ELSE [err |-> TRUE, owner |-> <<>>]
    ELSE IF HasPrefix(cloneURL, SshPrefix)
    THEN LET path == TrimSuffix(TrimPrefix(cloneURL, SshPrefix), GitSuffix)
             parts == Split(path, "/")
         IN  IF Len(parts) >= 1 /\ parts[1] # <<>>
             THEN [err |-> FALSE, owner |-> parts[1]]
             ELSE [err |-> TRUE, owner |-> <<>>]
    ELSE [err |-> TRUE, owner |-> <<>>]

extractOwnerFromURL(cloneURL) ==
    IF HasPrefix(cloneURL, HttpsPrefix)
    THEN LET path == TrimSuffix(TrimPrefix(cloneURL, HttpsPrefix), GitSuffix)
             parts == Split(path, "/")
         IN  IF Len(parts) >= 1
             THEN [err |-> FALSE, owner |-> parts[1]]
             ELSE [err |-> TRUE, owner |-> <<>>]
    ELSE IF HasPrefix(cloneURL, SshPrefix)
    THEN LET path == TrimSuffix(TrimPrefix(cloneURL, SshPrefix), GitSuffix)
             parts == Split(path, "/")
         IN  IF Len(parts) >= 1
             THEN [err |-> FALSE, owner |-> parts[1]]
             ELSE [err |-> TRUE, owner |-> <<>>]
    ELSE [err |-> TRUE, owner |-> <<>>]

(***************************************************************************)
(* Message payloads.  A payload is a JSON text: wf says whether it parses  *)
(* as an object whose known keys have the types of collector.Repository,   *)
(* has is the set of keys the object holds, the other fields their values  *)
(* (the zero value when the key is absent or mistyped).  "extra" is a key  *)
(* the Repository struct does not know.                                    *)
(***************************************************************************)
Acme == <<"a","c","m","e">>
Slash == <<"/">>
DemoRepo == <<"d","e","m","o">>
LibRepo == <<"l","i","b">>

HttpsDemoURL == HttpsPrefix \o Acme \o Slash \o DemoRepo \o GitSuffix
SshLibURL == SshPrefix \o Acme \o Slash \o LibRepo \o GitSuffix
OtherURL == <<"h","t","t","p",":","/","/","x","/","a","/","b">>

RequiredKeys == {"name", "clone_url", "ssh_url", "https_url", "created_at", "updated_at"}

\* "name" holds a number: the text does not decode, the other keys are read
BadTypePayload ==
    [wf |-> FALSE, has |-> RequiredKeys \ {"name"}, name |-> "",
     clone_url |-> HttpsDemoURL, language |-> "", topics |-> <<>>, extra |-> ""]
DemoPayload ==
    [wf |-> TRUE, has |-> RequiredKeys \cup {"language", "extra"}, name |-> "demo",
     clone_url |-> HttpsDemoURL, language |-> "Go", topics |-> <<>>, extra |-> "v2"]
LibPayload ==
    [wf |-> TRUE, has |-> RequiredKeys \cup {"topics"}, name |-> "lib",
     clone_url |-> SshLibURL, language |-> "", topics |-> <<>>, extra |-> ""]
OtherPayload ==
    [wf |-> TRUE, has |-> RequiredKeys, name |-> "demo",
     clone_url |-> OtherURL, language |-> "", topics |-> <<>>, extra |-> ""]

\* the payloads the producer side may put on the source subject
Payloads == {BadTypePayload, DemoPayload, LibPayload, OtherPayload}

\* the payloads of the runs with several messages: one that is routed and one
\* that is dropped
CorePayloads == {DemoPayload, BadTypePayload}

\* what the producer publishes in one run, in order: MaxMsgs messages of the
\* core payloads, or a single message of any payload
Workloads ==
    [1..MaxMsgs -> CorePayloads] \cup {<<d>> : d \in Payloads \ CorePayloads}

\* json.Unmarshal(msg.Data, &repo): unknown keys are dropped, absent keys stay
\* zero, and a mistyped key is reported after the other keys have been read
Unmarshal(data) ==
    [err |-> ~data.wf,
     repo |-> [Name |-> IF "name" \in data.has THEN data.name ELSE "",
               CloneURL |-> IF "clone_url" \in data.has THEN data.clone_url ELSE <<>>,
               Language |-> IF "language" \in data.has THEN data.language ELSE "",
               Topics |-> IF "topics" \in data.has THEN data.topics ELSE <<>>]]

\* json.Marshal of a Repository without omitempty: every field is written
Marshal_NoOmitEmpty(repo) ==
    [wf |-> TRUE,
     has |-> RequiredKeys \cup {"language", "topics"},
     name |-> repo.Name, clone_url |-> repo.CloneURL,
     language |-> repo.Language, topics |-> repo.Topics, extra |-> ""]

\* json.Marshal of a collector.Repository: language and topics are omitempty
Marshal(repo) ==
    [wf |-> TRUE,
     has |-> RequiredKeys
             \cup (IF repo.Language # "" THEN {"language"} ELSE {})
             \cup (IF Len(repo.Topics) > 0 THEN {"topics"} ELSE {}),
     name |-> repo.Name, clone_url |-> repo.CloneURL,
     language |-> repo.Language, topics |-> repo.Topics, extra |-> ""]

(***************************************************************************)
(* The hosting API and Checker.HasAppSecConfig.                            *)
(***************************************************************************)
StatusOK == 200
StatusNotFound == 404
StatusServerError == 500

\* the repositories that hold appsec-config.yml at their root
ReposWithConfig == {<<Acme, "demo">>}

\* what Repositories.GetContents can answer: a response with its status, or no
\* response at all (transport failure, cancelled context)
GetContents(done, owner, repo) ==
    IF done
    THEN {[err |-> TRUE, resp |-> FALSE, status |-> 0]}
    ELSE {IF <<owner, repo>> \in ReposWithConfig
          THEN [err |-> FALSE, resp |-> TRUE, status |-> StatusOK]
          ELSE [err |-> TRUE, resp |-> TRUE, status |-> StatusNotFound],
          [err |-> TRUE, resp |-> TRUE, status |-> StatusServerError],
          [err |-> TRUE, resp |-> FALSE, status |-> 0]}

\* the 404 is reported like any other failure
HasAppSecConfig_NotFoundIsError(r) ==
    IF r.err
    THEN [has |-> FALSE, err |-> TRUE]
    ELSE [has |-> TRUE, err |-> FALSE]

\* lines 46-54, on the outcome r of the remote call
HasAppSecConfig(r) ==
    IF r.err
    THEN IF r.resp /\ r.status = StatusNotFound
         THEN [has |-> FALSE, err |-> FALSE]
         ELSE [has |-> FALSE, err |-> TRUE]
    ELSE [has |-> TRUE, err |-> FALSE]

(***************************************************************************)
(* Processor.ProcessMessage, the routing decision and the bytes published. *)
(***************************************************************************)
ValidReposSubject == "repos.valid"
InvalidReposSubject == "repos.invalid"

\* fail open: an error of the checker counts as "the file exists"
hasConfigAfterCheck_FailOpen(res) == IF res.err THEN TRUE ELSE res.has

\* lines 48-53: hasConfig after the check, forced to false on an error
hasConfigAfterCheck(res) == IF res.err THEN FALSE ELSE res.has

\* the two subjects swapped
TargetSubject_Swapped(hasConfig) ==
    IF hasConfig THEN InvalidReposSubject ELSE ValidReposSubject

\* lines 56-63
TargetSubject(hasConfig) ==
    IF hasConfig THEN ValidReposSubject ELSE InvalidReposSubject

\* the decoded record is encoded again and published
PublishedData_Reencoded(data) == Marshal(Unmarshal(data).repo)

\* line 66: msg.Data is what is published
PublishedData(data) == data


(***************************************************************************)
(* State.                                                                  *)
(***************************************************************************)
VARIABLES
    workload,   \* the payloads the producer is going to publish, in order
    config,     \* config.ProcessStartupMessages
    pc,         \* where the goroutine that owns the Validator is
    calls,      \* Start/Stop invocations made so far
    dsub,       \* ProcessExistingMessages' sub (index into subs, 0 outside the drain)
    sub,        \* v.sub (index into subs, 0 = nil)
    ctxDone,    \* v.ctx is cancelled
    wg,         \* counter of v.wg
    ncClosed,   \* v.nc is closed
    subs,       \* the subscriptions made on v.nc, in order of creation
    units,      \* the ProcessMessage invocations made so far
    sent,       \* messages published on the source subject so far
    stops,      \* Stop invocations so far
    stopsDone,  \* Stop invocations that have returned
    starts,     \* the results of the Start invocations that have returned
    track,      \* whether the run records atStop
    atStop,     \* the units in flight when the Stop now in progress was invoked
    net,        \* the link to the bus: "reliable", or "up" until it goes "down"
    probe,      \* a function of the program applied on its own: [fn, arg, res, done]
    scan,       \* the Scanner and the scan it is running
    waits       \* the Validator.Wait invocations made so far

vars == <<workload, config, pc, calls, dsub, sub, ctxDone, wg, ncClosed, subs,
          units, sent, stops, stopsDone, starts, track, atStop, net, probe, scan,
          waits>>

\* the state of the validator service
validatorVars ==
    <<workload, config, pc, calls, dsub, sub, ctxDone, wg, ncClosed, subs,
      units, sent, stops, stopsDone, starts, track, atStop, net, waits>>

\* no function is applied on its own, no scanner exists
NoProbe == [fn |-> "none", arg |-> <<>>, res |-> <<>>, done |-> FALSE]
NoScan ==
    [pc |-> "none", listing |-> <<>>, page |-> 0, allRepos |-> <<>>, next |-> 0,
     calls |-> <<>>, ret |-> "none", closed |-> FALSE]

\* the broker hands a message to every active subscription on its subject
Fanout(S, m) ==
    [i \in 1..Len(S) |->
        IF S[i].active THEN [S[i] EXCEPT !.pending = Append(@, m)] ELSE S[i]]

\* Subscription.Unsubscribe / closing: the subscription is removed and what
\* it still holds pending is dropped
Removed(r) == [r EXCEPT !.active = FALSE, !.pending = <<>>]

\* the client's delivery goroutine may have taken the next pending message of
\* an async subscription and entered the callback when the subscription is
\* removed
CanEnter(r) == ~r.sync /\ r.active /\ r.pending # <<>> /\ r.cb = <<>>

\* removed with the callback entered for the message that was next
RemovedInCallback(r) ==
    [r EXCEPT !.active = FALSE, !.pending = <<>>, !.cb = <<Head(r.pending)>>]

NewSub(sync, gen) ==
    [sync |-> sync, gen |-> gen, active |-> TRUE, pending |-> <<>>, cb |-> <<>>]

\* a ProcessMessage invocation on m that is about to run: the n-th made for the
\* subscription via, of the gen-th Start
NewUnit(m, src, via, gen) ==
    [msg |-> m, src |-> src, via |-> via, gen |-> gen,
     n |-> Cardinality({v \in units : v.via = via}) + 1,
     pc |-> "run", chk |-> "none", nchk |-> 0, pubs |-> <<>>, ret |-> "none"]

\* the Validator as New returns it, and the bus with nothing published
Constructed ==
    /\ workload \in Workloads
    /\ config \in [ProcessStartupMessages : BOOLEAN]
    /\ pc = "idle"
    /\ calls = 0
    /\ dsub = 0
    /\ sub = 0
    /\ ctxDone = FALSE
    /\ wg = 0
    /\ ncClosed = FALSE
    /\ subs = <<>>
    /\ units = {}
    /\ sent = 0
    /\ stops = 0
    /\ stopsDone = 0
    /\ starts = <<>>
    /\ atStop = {}
    /\ probe = NoProbe
    /\ scan = NoScan
    /\ waits = <<>>

Init == Constructed /\ track = FALSE /\ net = "reliable"

\* the same program, observed: each Stop records the units it finds in flight
InitTracked == Constructed /\ track = TRUE /\ net = "reliable"

\* the same program on a link that may go down, fed with routable messages
InitLossy ==
    /\ Constructed
    /\ workload = [i \in 1..MaxMsgs |-> DemoPayload]
    /\ track = FALSE
    /\ net = "up"

\* the number of the Start invocation in progress
Gen == Len(starts) + 1

StartReturns(res) ==
    /\ starts' = Append(starts, [res |-> res, afterStops |-> stops])
    /\ pc' = "idle"

(***************************************************************************)
(* The producer (Scanner.publishRepository) publishes on the source        *)
(* subject.                                                                *)
(***************************************************************************)
Produce ==
    /\ sent < Len(workload)
    /\ subs' = Fanout(subs, [id |-> sent + 1, data |-> workload[sent + 1]])
    /\ sent' = sent + 1
    /\ UNCHANGED <<workload, config, pc, calls, dsub, sub, ctxDone, wg, ncClosed,
                   units, stops, stopsDone, starts, track, atStop, net, probe, scan, waits>>

(***************************************************************************)
(* Validator.Start up to the first pull: ProcessExistingMessages returns   *)
(* at once when the flag is off, else it makes the sync subscription.      *)
(***************************************************************************)
\* ProcessExistingMessages drains whatever the flag says
Start_AlwaysDrains ==
    /\ pc = "idle"
    /\ calls < MaxCalls
    /\ Len(starts) < 2
    /\ calls' = calls + 1
    /\ \E ok \in (IF ncClosed THEN {FALSE} ELSE BOOLEAN) :
          IF ok
          THEN /\ subs' = Append(subs, NewSub(TRUE, Gen))
               /\ dsub' = Len(subs) + 1
               /\ pc' = "pull"
               /\ UNCHANGED starts
          ELSE /\ StartReturns("drainError")
               /\ UNCHANGED <<subs, dsub>>
    /\ UNCHANGED <<workload, config, sub, ctxDone, wg, ncClosed, units, sent,
                   stops, stopsDone, track, atStop, net, probe, scan, waits>>

\* the live subscription is made together with the sync subscription
Start_LiveFirst ==
    /\ pc = "idle"
    /\ calls < MaxCalls
    /\ Len(starts) < 2
    /\ calls' = calls + 1
    /\ IF ~config.ProcessStartupMessages
       THEN /\ pc' = "subscribe"
            /\ UNCHANGED <<subs, dsub, starts>>
       ELSE \E ok \in (IF ncClosed THEN {FALSE} ELSE BOOLEAN) :
               IF ok
               THEN /\ subs' = Append(Append(subs, NewSub(FALSE, Gen)),
                                      NewSub(TRUE, Gen))
                    /\ dsub' = Len(subs) + 2
                    /\ pc' = "pull"
                    /\ UNCHANGED starts
               ELSE /\ StartReturns("drainError")
                    /\ UNCHANGED <<subs, dsub>>
    /\ UNCHANGED <<workload, config, sub, ctxDone, wg, ncClosed, units, sent,
                   stops, stopsDone, track, atStop, net, probe, scan, waits>>

Start ==
    /\ pc = "idle"
    /\ calls < MaxCalls
    /\ Len(starts) < 2
    /\ calls' = calls + 1
    /\ IF ~config.ProcessStartupMessages
       THEN /\ pc' = "subscribe"
            /\ UNCHANGED <<subs, dsub, starts>>
       ELSE \E ok \in (IF ncClosed THEN {FALSE} ELSE BOOLEAN) :
               IF ok
               THEN /\ subs' = Append(subs, NewSub(TRUE, Gen))
                    /\ dsub' = Len(subs) + 1
                    /\ pc' = "pull"
                    /\ UNCHANGED starts
               ELSE /\ StartReturns("drainError")
                    /\ UNCHANGED <<subs, dsub>>
    /\ UNCHANGED <<workload, config, sub, ctxDone, wg, ncClosed, units, sent,
                   stops, stopsDone, track, atStop, net, probe, scan, waits>>

(***************************************************************************)
(* One turn of the drain loop: sub.NextMsg(timeout) hands over the next    *)
(* pending message, times out when none is pending, or fails.  On the two  *)
(* exits the deferred Unsubscribe runs.                                    *)
(***************************************************************************)
\* the drain hands the message to a goroutine and pulls again at once
NextMsgReturnsMessage_Async ==
    /\ pc = "pull"
    /\ subs[dsub].pending # <<>>
    /\ subs' = [subs EXCEPT ![dsub].pending = Tail(@)]
    /\ units' = units \cup {NewUnit(Head(subs[dsub].pending), "drain", dsub, Gen)}
    /\ pc' = "pull"
    /\ UNCHANGED <<workload, config, calls, dsub, sub, ctxDone, wg, ncClosed,
                   sent, stops, stopsDone, starts, track, atStop, net, probe, scan, waits>>

NextMsgReturnsMessage ==
    /\ pc = "pull"
    /\ subs[dsub].pending # <<>>
    /\ subs' = [subs EXCEPT ![dsub].pending = Tail(@)]
    /\ units' = units \cup {NewUnit(Head(subs[dsub].pending), "drain", dsub, Gen)}
    /\ pc' = "process"
    /\ UNCHANGED <<workload, config, calls, dsub, sub, ctxDone, wg, ncClosed,
                   sent, stops, stopsDone, starts, track, atStop, net, probe, scan, waits>>

\* the loop stops after one message, whatever is still pending
\* the loop may end at any turn, whether or not a message is pending
NextMsgTimesOut_EndsEarly ==
    /\ pc = "pull"
    /\ subs' = [subs EXCEPT ![dsub] = Removed(@)]
    /\ dsub' = 0
    /\ pc' = "subscribe"
    /\ UNCHANGED <<workload, config, calls, sub, ctxDone, wg, ncClosed, units,
                   sent, stops, stopsDone, starts, track, atStop, net, probe, scan, waits>>

NextMsgTimesOut_OneMessage ==
    /\ pc = "pull"
    /\ subs[dsub].pending = <<>> \/ \E u \in units : u.via = dsub
    /\ subs' = [subs EXCEPT ![dsub] = Removed(@)]
    /\ dsub' = 0
    /\ pc' = "subscribe"
    /\ UNCHANGED <<workload, config, calls, sub, ctxDone, wg, ncClosed, units,
                   sent, stops, stopsDone, starts, track, atStop, net, probe, scan, waits>>

\* lines 115-121 and 104-108: ErrTimeout ends the loop, the sub is unsubscribed
NextMsgTimesOut ==
    /\ pc = "pull"
    /\ subs[dsub].pending = <<>>
    /\ subs' = [subs EXCEPT ![dsub] = Removed(@)]
    /\ dsub' = 0
    /\ pc' = "subscribe"
    /\ UNCHANGED <<workload, config, calls, sub, ctxDone, wg, ncClosed, units,
                   sent, stops, stopsDone, starts, track, atStop, net, probe, scan, waits>>

\* the receive error is returned only after the live subscription is made
NextMsgFails_SubscribesFirst ==
    /\ pc = "pull"
    /\ subs' = Append([subs EXCEPT ![dsub] = Removed(@)], NewSub(FALSE, Gen))
    /\ sub' = Len(subs) + 1
    /\ dsub' = 0
    /\ StartReturns("drainError")
    /\ UNCHANGED <<workload, config, calls, ctxDone, wg, ncClosed, units,
                   sent, stops, stopsDone, track, atStop, net, probe, scan, waits>>

NextMsgFails ==
    /\ pc = "pull"
    /\ subs' = [subs EXCEPT ![dsub] = Removed(@)]
    /\ dsub' = 0
    /\ StartReturns("drainError")
    /\ UNCHANGED <<workload, config, calls, sub, ctxDone, wg, ncClosed, units,
                   sent, stops, stopsDone, track, atStop, net, probe, scan, waits>>

(***************************************************************************)
(* Validator.Start, lines 69-87: the live subscription.                    *)
(***************************************************************************)
\* the subscription is made and stored although nc.Subscribe reported an error
Subscribe_StoresOnFailure ==
    /\ pc = "subscribe"
    /\ \E ok \in (IF ncClosed THEN {FALSE} ELSE BOOLEAN) :
          /\ subs' = Append(subs, NewSub(FALSE, Gen))
          /\ sub' = Len(subs) + 1
          /\ StartReturns(IF ok THEN "ok" ELSE "subscribeError")
    /\ UNCHANGED <<workload, config, calls, dsub, ctxDone, wg, ncClosed, units,
                   sent, stops, stopsDone, track, atStop, net, probe, scan, waits>>

Subscribe ==
    /\ pc = "subscribe"
    /\ \E ok \in (IF ncClosed THEN {FALSE} ELSE BOOLEAN) :
          IF ok
          THEN /\ subs' = Append(subs, NewSub(FALSE, Gen))
               /\ sub' = Len(subs) + 1
               /\ StartReturns("ok")
          ELSE /\ StartReturns("subscribeError")
               /\ UNCHANGED <<subs, sub>>
    /\ UNCHANGED <<workload, config, calls, dsub, ctxDone, wg, ncClosed, units,
                   sent, stops, stopsDone, track, atStop, net, probe, scan, waits>>

(***************************************************************************)
(* Delivery on a live subscription: the client takes the next pending      *)
(* message of the subscription and calls the handler, which adds to v.wg   *)
(* and starts the goroutine.  The handler also runs for a message whose    *)
(* callback had been entered when the subscription was removed.            *)
(***************************************************************************)
Delivered(i) ==
    /\ ~subs[i].sync
    /\ subs[i].cb # <<>> \/ (subs[i].active /\ subs[i].pending # <<>>)

NextDelivery(i) ==
    IF subs[i].cb # <<>> THEN subs[i].cb[1] ELSE Head(subs[i].pending)

AfterDelivery(i) ==
    IF subs[i].cb # <<>>
    THEN [subs EXCEPT ![i].cb = <<>>]
    ELSE [subs EXCEPT ![i].pending = Tail(@)]

\* the handler starts the goroutine without adding to v.wg
Handler_NoAdd(i) ==
    /\ Delivered(i)
    /\ units' = units \cup {NewUnit(NextDelivery(i), "live", i, subs[i].gen)}
    /\ subs' = AfterDelivery(i)
    /\ UNCHANGED <<workload, config, pc, calls, dsub, sub, ctxDone, wg, ncClosed,
                   sent, stops, stopsDone, starts, track, atStop, net, probe, scan, waits>>

\* lines 70-80: v.wg.Add(1); go func() { ... }()
Handler(i) ==
    /\ Delivered(i)
    /\ wg' = wg + 1
    /\ units' = units \cup {NewUnit(NextDelivery(i), "live", i, subs[i].gen)}
    /\ subs' = AfterDelivery(i)
    /\ UNCHANGED <<workload, config, pc, calls, dsub, sub, ctxDone, ncClosed,
                   sent, stops, stopsDone, starts, track, atStop, net, probe, scan, waits>>

(***************************************************************************)
(* Processor.ProcessMessage for the invocation u.  Returning ends a live   *)
(* unit (the deferred v.wg.Done()) or gives control back to the drain      *)
(* loop.                                                                   *)
(***************************************************************************)
\* the error of json.Unmarshal is logged and processing goes on
DecodeFailed_Ignored(d) == FALSE

\* line 35: err != nil
DecodeFailed(d) == d.err

\* the message goes out on both subjects
PublishCalls_Both(subject, data, ok) ==
    <<[subject |-> ValidReposSubject, data |-> data, ok |-> ok],
      [subject |-> InvalidReposSubject, data |-> data, ok |-> ok]>>

\* line 66: the one call of p.nc.Publish
PublishCalls(subject, data, ok) ==
    <<[subject |-> subject, data |-> data, ok |-> ok]>>

\* nc.Publish of a payload the bus has carried fails when the connection is
\* closed or its link is down, and on no other ground
PublishResults == IF ncClosed \/ net = "down" THEN {FALSE} ELSE {TRUE}

\* the drain loop is left at the first message that cannot be routed
Returned_BreaksOnError(u) ==
    IF u.src = "live"
    THEN /\ wg' = wg - 1
         /\ UNCHANGED pc
    ELSE /\ pc' = IF \/ Unmarshal(u.msg.data).err
                      \/ extractOwnerFromURL(Unmarshal(u.msg.data).repo.CloneURL).err
                   THEN "subscribe" ELSE "pull"
         /\ UNCHANGED wg

\* the handler reports the unit as finished on the success path only
Returned_DoneOnSuccessOnly(u) ==
    IF u.src = "live"
    THEN /\ wg' = IF \E v \in units' \ units : v.ret = "publishError"
                   THEN wg ELSE wg - 1
         /\ UNCHANGED pc
    ELSE /\ pc' = "pull"
         /\ UNCHANGED wg

\* the drain loop is left when ProcessMessage returns an error
Returned_EndsDrainOnError(u) ==
    IF u.src = "live"
    THEN /\ wg' = wg - 1
         /\ UNCHANGED pc
    ELSE /\ pc' = IF \E v \in units' \ units : v.ret # "nil"
                   THEN "subscribe" ELSE "pull"
         /\ UNCHANGED wg

\* the goroutine of the handler never calls v.wg.Done
Returned_NeverDone(u) ==
    IF u.src = "live"
    THEN UNCHANGED <<wg, pc>>
    ELSE /\ pc' = "pull"
         /\ UNCHANGED wg

\* what returning from ProcessMessage does to the caller of the invocation u
Returned(u) ==
    IF u.src = "live"
    THEN /\ wg' = wg - 1
         /\ UNCHANGED pc
    ELSE /\ pc' = "pull"
         /\ UNCHANGED wg

\* the answer of an earlier check of the same repository is used again
ProcessMessage_Cached(u) ==
    /\ u.pc = "run"
    /\ LET d == Unmarshal(u.msg.data)
           o == extractOwnerFromURL(d.repo.CloneURL)
           known == {v \in units : v.pc = "done" /\ v.nchk > 0
                                   /\ Unmarshal(v.msg.data).repo.Name = d.repo.Name}
       IN  IF DecodeFailed(d)
           THEN units' = (units \ {u}) \cup
                    {[u EXCEPT !.pc = "done", !.ret = "decodeError"]}
           ELSE IF o.err
           THEN units' = (units \ {u}) \cup
                    {[u EXCEPT !.pc = "done", !.ret = "urlError"]}
           ELSE IF known # {}
           THEN \E v \in known : \E ok \in PublishResults :
                  units' = (units \ {u}) \cup
                      {[u EXCEPT
                          !.pc = "done",
                          !.chk = v.chk,
                          !.pubs = PublishCalls(TargetSubject(v.chk = "true"),
                                                PublishedData(u.msg.data), ok),
                          !.ret = IF ok THEN "nil" ELSE "publishError"]}
           ELSE \E r \in GetContents(ctxDone, o.owner, d.repo.Name) :
                  \E ok \in PublishResults :
                    LET res == HasAppSecConfig(r)
                        targetSubject == TargetSubject(hasConfigAfterCheck(res))
                    IN  units' = (units \ {u}) \cup
                          {[u EXCEPT
                              !.pc = "done",
                              !.nchk = @ + 1,
                              !.chk = IF res.err THEN "error"
                                      ELSE IF res.has THEN "true" ELSE "false",
                              !.pubs = PublishCalls(targetSubject,
                                                    PublishedData(u.msg.data), ok),
                              !.ret = IF ok THEN "nil" ELSE "publishError"]}
    /\ Returned(u)
    /\ UNCHANGED <<workload, config, calls, dsub, sub, ctxDone, ncClosed, subs,
                   sent, stops, stopsDone, starts, track, atStop, net, probe, scan, waits>>

ProcessMessage(u) ==
    /\ u.pc = "run"
    /\ LET d == Unmarshal(u.msg.data)
           o == extractOwnerFromURL(d.repo.CloneURL)
       IN  IF DecodeFailed(d)
           THEN units' = (units \ {u}) \cup
                    {[u EXCEPT !.pc = "done", !.ret = "decodeError"]}
           ELSE IF o.err
           THEN units' = (units \ {u}) \cup
                    {[u EXCEPT !.pc = "done", !.ret = "urlError"]}
           ELSE \E r \in GetContents(ctxDone, o.owner, d.repo.Name) :
                  \E ok \in PublishResults :
                    LET res == HasAppSecConfig(r)
                        targetSubject == TargetSubject(hasConfigAfterCheck(res))
                    IN  units' = (units \ {u}) \cup
                          {[u EXCEPT
                              !.pc = "done",
                              !.nchk = @ + 1,
                              !.chk = IF res.err THEN "error"
                                      ELSE IF res.has THEN "true" ELSE "false",
                              !.pubs = PublishCalls(targetSubject,
                                                    PublishedData(u.msg.data), ok),
                              !.ret = IF ok THEN "nil" ELSE "publishError"]}
    /\ Returned(u)
    /\ UNCHANGED <<workload, config, calls, dsub, sub, ctxDone, ncClosed, subs,
                   sent, stops, stopsDone, starts, track, atStop, net, probe, scan, waits>>

(***************************************************************************)
(* Validator.Stop, one action per statement.                               *)
(***************************************************************************)
\* the subscription and the message that identify an invocation
Key(u) == <<u.via, u.msg.id>>

\* the live units that have been started and have not returned
InFlight == {u \in units : u.src = "live" /\ u.pc # "done"}

\* Stop goes straight to unsubscribing
StopCancel_NoCancel ==
    /\ pc = "idle"
    /\ calls < MaxCalls
    /\ calls' = calls + 1
    /\ stops' = stops + 1
    /\ pc' = "stopUnsubscribe"
    /\ atStop' = IF track THEN {Key(u) : u \in InFlight} ELSE {}
    /\ UNCHANGED <<workload, config, dsub, sub, ctxDone, wg, ncClosed, subs, units,
                   sent, stopsDone, starts, track, net, probe, scan, waits>>

\* line 144: v.cancel()
StopCancel ==
    /\ pc = "idle"
    /\ calls < MaxCalls
    /\ calls' = calls + 1
    /\ stops' = stops + 1
    /\ ctxDone' = TRUE
    /\ pc' = "stopUnsubscribe"
    /\ atStop' = IF track THEN {Key(u) : u \in InFlight} ELSE {}
    /\ UNCHANGED <<workload, config, dsub, sub, wg, ncClosed, subs, units, sent,
                   stopsDone, starts, track, net, probe, scan, waits>>

\* lines 147-151: v.sub.Unsubscribe() when v.sub is set
StopUnsubscribe ==
    /\ pc = "stopUnsubscribe"
    /\ \/ subs' = IF sub # 0 THEN [subs EXCEPT ![sub] = Removed(@)] ELSE subs
       \/ /\ sub # 0
          /\ CanEnter(subs[sub])
          /\ subs' = [subs EXCEPT ![sub] = RemovedInCallback(@)]
    /\ pc' = "stopWait"
    /\ UNCHANGED <<workload, config, calls, dsub, sub, ctxDone, wg, ncClosed,
                   units, sent, stops, stopsDone, starts, track, atStop, net, probe, scan, waits>>

\* Stop does not wait for the units
StopWait_NoBarrier ==
    /\ pc = "stopWait"
    /\ pc' = "stopClose"
    /\ atStop' = {}
    /\ UNCHANGED <<workload, config, calls, dsub, sub, ctxDone, wg, ncClosed,
                   subs, units, sent, stops, stopsDone, starts, track, net, probe, scan, waits>>

\* line 154: v.wg.Wait() returns when the counter is zero
StopWait ==
    /\ pc = "stopWait"
    /\ wg = 0
    /\ pc' = "stopClose"
    /\ atStop' = {}
    /\ UNCHANGED <<workload, config, calls, dsub, sub, ctxDone, wg, ncClosed,
                   subs, units, sent, stops, stopsDone, starts, track, net, probe, scan, waits>>

\* lines 157-161: v.nc.Close(), which ends every subscription of the connection
StopClose ==
    /\ pc = "stopClose"
    /\ ncClosed' = TRUE
    /\ \E E \in SUBSET {i \in 1..Len(subs) : CanEnter(subs[i])} :
          subs' = [i \in 1..Len(subs) |->
                      IF i \in E THEN RemovedInCallback(subs[i]) ELSE Removed(subs[i])]
    /\ stopsDone' = stopsDone + 1
    /\ pc' = "idle"
    /\ UNCHANGED <<workload, config, calls, dsub, sub, ctxDone, wg, units, sent,
                   stops, starts, track, atStop, net, probe, scan, waits>>

Next ==
    \/ Produce
    \/ Start
    \/ NextMsgReturnsMessage
    \/ NextMsgTimesOut
    \/ NextMsgFails
    \/ Subscribe
    \/ \E i \in 1..Len(subs) : Handler(i)
    \/ \E u \in units : ProcessMessage(u)
    \/ StopCancel
    \/ StopUnsubscribe
    \/ StopWait
    \/ StopClose

Spec == Init /\ [][Next]_vars

SpecTracked == InitTracked /\ [][Next]_vars

\* the link of the running service goes down for good: from here on
\* nc.Publish fails
LinkLost ==
    /\ net = "up"
    /\ Len(starts) > 0
    /\ ~ncClosed
    /\ net' = "down"
    /\ UNCHANGED <<workload, config, pc, calls, dsub, sub, ctxDone, wg, ncClosed,
                   subs, units, sent, stops, stopsDone, starts, track, atStop,
                   probe, scan, waits>>

NextLossy ==
    \/ Next
    \/ LinkLost

SpecLossy == InitLossy /\ [][NextLossy]_vars

(***************************************************************************)
(* The functions of the program applied on their own, one application per  *)
(* run: probe.arg is the argument, probe.res the result once the function  *)
(* has returned.  The validator is not running.                            *)
(***************************************************************************)
ValidatorAbsent ==
    /\ workload = <<>>
    /\ config = [ProcessStartupMessages |-> TRUE]
    /\ pc = "idle"
    /\ calls = 0
    /\ dsub = 0
    /\ sub = 0
    /\ ctxDone = FALSE
    /\ wg = 0
    /\ ncClosed = FALSE
    /\ subs = <<>>
    /\ units = {}
    /\ sent = 0
    /\ stops = 0
    /\ stopsDone = 0
    /\ starts = <<>>
    /\ track = FALSE
    /\ atStop = {}
    /\ net = "reliable"
    /\ waits = <<>>

Applied(fn, arg) == [fn |-> fn, arg |-> arg, res |-> <<>>, done |-> FALSE]

\* the characters names are made of, and the names
NameChars == {"a", "."}

RECURSIVE StringsOfLen(_)
StringsOfLen(n) ==
    IF n = 0 THEN {<<>>}
    ELSE {Append(str, c) : str \in StringsOfLen(n - 1), c \in NameChars}

Names == UNION {StringsOfLen(n) : n \in 1..MaxNameLen} \cup {Acme, DemoRepo, GitSuffix}

\* clone URLs of the form {prefix}{owner}/{repo}, with or without .git
FormURLs ==
    {[prefix |-> p, owner |-> o, repo |-> r, suffix |-> x,
      url |-> p \o o \o Slash \o r \o x] :
        p \in {HttpsPrefix, SshPrefix}, o \in Names, r \in Names, x \in {<<>>, GitSuffix}}

\* what the remote call of the checker can come back with: success, a response
\* the client turns into an error (by its status, or because its body cannot
\* be read), or no response at all
FailureStatuses == {StatusOK, 301, 401, 403, 429, StatusServerError, 503}

Responses ==
    {[err |-> FALSE, resp |-> TRUE, status |-> StatusOK],
     [err |-> TRUE, resp |-> TRUE, status |-> StatusNotFound],
     [err |-> TRUE, resp |-> FALSE, status |-> 0]}
    \cup {[err |-> TRUE, resp |-> TRUE, status |-> st] : st \in FailureStatuses}

\* repository records as the scanner fills them: with and without a language,
\* with and without topics (a nil and an empty slice both have length zero)
Repositories ==
    [Name : {"demo", "lib"},
     CloneURL : {HttpsDemoURL, SshLibURL},
     Language : {"", "Go"},
     Topics : {<<>>, <<"sec">>, <<"sec", "go">>}]

\* what os.Getenv gives for the variables Load reads; an unset variable reads
\* as the empty string
Environments ==
    [GITHUB_ORG : {"", "acme"},
     GITHUB_TOKEN : {"", "token123"},
     NATS_URL : {"", "nats://bus:4222"},
     NATS_SUBJECT : {"", "custom.repos"},
     CRON_SCHEDULE : {"", "*/5 * * * *"},
     VALID_REPOS_SUBJECT : {"", "custom.valid"},
     INVALID_REPOS_SUBJECT : {"", "custom.invalid"},
     SOURCE_SUBJECT : {"", "custom.repos"},
     RUN_ON_STARTUP : {"", "true", "false", "TRUE", "1"},
     PROCESS_STARTUP_MESSAGES : {"", "true", "false"}]

\* Load returns nil for the configuration together with an error
NoConfig == [loaded |-> FALSE]

\* lines 37-54: an empty value is replaced by the default
OrDefault(value, default) == IF value = "" THEN default ELSE value

\* Load does not ask for the token
Load_TokenOptional(env) ==
    IF env.GITHUB_ORG = ""
    THEN [cfg |-> NoConfig, err |-> "GITHUB_ORG environment variable is required"]
    ELSE [cfg |-> [loaded |-> TRUE,
                   GitHubOrg |-> env.GITHUB_ORG,
                   GitHubToken |-> env.GITHUB_TOKEN,
                   NATSUrl |-> OrDefault(env.NATS_URL, "nats://localhost:4222"),
                   NATSSubject |-> OrDefault(env.NATS_SUBJECT, "github.repositories"),
                   CronSchedule |-> OrDefault(env.CRON_SCHEDULE, "0 0 * * 0"),
                   RunOnStartup |-> env.RUN_ON_STARTUP = "true",
                   ValidReposSubject |->
                       OrDefault(env.VALID_REPOS_SUBJECT, ValidReposSubject),
                   InvalidReposSubject |->
                       OrDefault(env.INVALID_REPOS_SUBJECT, InvalidReposSubject),
                   SourceSubject |-> OrDefault(env.SOURCE_SUBJECT, "github.repositories"),
                   ProcessStartupMessages |->
                       env.PROCESS_STARTUP_MESSAGES # "false"],
          err |-> ""]

\* config.Load, lines 24-77
Load(env) ==
    IF env.GITHUB_ORG = ""
    THEN [cfg |-> NoConfig, err |-> "GITHUB_ORG environment variable is required"]
    ELSE IF env.GITHUB_TOKEN = ""
    THEN [cfg |-> NoConfig, err |-> "GITHUB_TOKEN environment variable is required"]
    ELSE [cfg |-> [loaded |-> TRUE,
                   GitHubOrg |-> env.GITHUB_ORG,
                   GitHubToken |-> env.GITHUB_TOKEN,
                   NATSUrl |-> OrDefault(env.NATS_URL, "nats://localhost:4222"),
                   NATSSubject |-> OrDefault(env.NATS_SUBJECT, "github.repositories"),
                   CronSchedule |-> OrDefault(env.CRON_SCHEDULE, "0 0 * * 0"),
                   RunOnStartup |-> env.RUN_ON_STARTUP = "true",
                   ValidReposSubject |->
                       OrDefault(env.VALID_REPOS_SUBJECT, ValidReposSubject),
                   InvalidReposSubject |->
                       OrDefault(env.INVALID_REPOS_SUBJECT, InvalidReposSubject),
                   SourceSubject |-> OrDefault(env.SOURCE_SUBJECT, "github.repositories"),
                   ProcessStartupMessages |->
                       env.PROCESS_STARTUP_MESSAGES # "false"],
          err |-> ""]

\* clone URLs of the form {prefix}{rest}, with or without .git, where rest has
\* no "/" and may be empty
BareURLs ==
    {[prefix |-> p, rest |-> r, suffix |-> x, url |-> p \o r \o x] :
        p \in {HttpsPrefix, SshPrefix},
        r \in UNION {StringsOfLen(n) : n \in 0..MaxNameLen} \cup {Acme},
        x \in {<<>>, GitSuffix}}

InitPure ==
    /\ ValidatorAbsent
    /\ scan = NoScan
    /\ \/ probe \in {Applied("extractOwnerFromURL", a) : a \in FormURLs}
       \/ probe \in {Applied("HasAppSecConfig", r) : r \in Responses}
       \/ probe \in {Applied("RoundTrip", r) : r \in Repositories}
       \/ probe \in {Applied("Load", e) : e \in Environments}
       \/ probe \in {Applied("extractOwnerFromURL.bare", a) : a \in BareURLs}

ExtractOwner ==
    /\ probe.fn = "extractOwnerFromURL"
    /\ ~probe.done
    /\ probe' = [probe EXCEPT !.res = extractOwnerFromURL(probe.arg.url), !.done = TRUE]
    /\ UNCHANGED <<validatorVars, scan>>

CheckConfig ==
    /\ probe.fn = "HasAppSecConfig"
    /\ ~probe.done
    /\ probe' = [probe EXCEPT !.res = HasAppSecConfig(probe.arg), !.done = TRUE]
    /\ UNCHANGED <<validatorVars, scan>>

\* json.Marshal of a record and json.Unmarshal of the text into a new record
RoundTrip ==
    /\ probe.fn = "RoundTrip"
    /\ ~probe.done
    /\ LET data == Marshal(probe.arg)
       IN  probe' = [probe EXCEPT !.res = [data |-> data, back |-> Unmarshal(data)],
                                  !.done = TRUE]
    /\ UNCHANGED <<validatorVars, scan>>

\* config.Load on an environment
LoadConfig ==
    /\ probe.fn = "Load"
    /\ ~probe.done
    /\ probe' = [probe EXCEPT !.res = Load(probe.arg), !.done = TRUE]
    /\ UNCHANGED <<validatorVars, scan>>

\* extractOwnerFromURL on a URL without "/" after the prefix
ExtractOwnerBare ==
    /\ probe.fn = "extractOwnerFromURL.bare"
    /\ ~probe.done
    /\ probe' = [probe EXCEPT !.res = extractOwnerFromURL(probe.arg.url), !.done = TRUE]
    /\ UNCHANGED <<validatorVars, scan>>

NextPure ==
    \/ ExtractOwner
    \/ CheckConfig
    \/ RoundTrip
    \/ LoadConfig
    \/ ExtractOwnerBare

SpecPure == InitPure /\ [][NextPure]_vars

(***************************************************************************)
(* The service with the startup drain switched off and one message on the  *)
(* source subject, as it is scheduled: Stop runs its statements one after  *)
(* the other, and every goroutine started by the handler runs              *)
(* ProcessMessage to its return.                                           *)
(***************************************************************************)
InitStop ==
    /\ Constructed
    /\ Len(workload) = 1
    /\ ~config.ProcessStartupMessages
    /\ track = TRUE
    /\ net = "reliable"

NextStop ==
    \/ Produce
    \/ Start
    \/ Subscribe
    \/ \E i \in 1..Len(subs) : Handler(i)
    \/ \E u \in units : ProcessMessage(u)
    \/ StopCancel
    \/ StopUnsubscribe
    \/ StopWait
    \/ StopClose

SpecStop ==
    /\ InitStop
    /\ [][NextStop]_vars
    /\ WF_vars(StopUnsubscribe)
    /\ WF_vars(StopWait)
    /\ WF_vars(StopClose)
    /\ WF_vars(\E u \in units : ProcessMessage(u))

(***************************************************************************)
(* The drain, scheduled fairly: the service drains at startup, the         *)
(* producer has a single message, every NextMsg call returns (with a       *)
(* message, with the timeout or with an error), every ProcessMessage call  *)
(* returns, and Start goes on to nc.Subscribe.                             *)
(***************************************************************************)
InitDrain ==
    /\ Constructed
    /\ Len(workload) = 1
    /\ config.ProcessStartupMessages
    /\ track = FALSE
    /\ net = "reliable"

SpecDrain ==
    /\ InitDrain
    /\ [][Next]_vars
    /\ WF_vars(NextMsgReturnsMessage \/ NextMsgTimesOut \/ NextMsgFails)
    /\ WF_vars(\E u \in units : ProcessMessage(u))
    /\ WF_vars(Subscribe)

(***************************************************************************)
(* Validator.Wait, lines 164-167: a caller of Wait receives from            *)
(* v.ctx.Done(), a channel that is closed by v.cancel() and by nothing      *)
(* else.  A goroutine whose receive is ready is scheduled.                  *)
(***************************************************************************)
\* a goroutine calls v.Wait() and blocks on the receive; early: no Stop has
\* been invoked at the time of the call
Wait ==
    /\ Len(waits) < MaxWaits
    /\ waits' = Append(waits, [pc |-> "blocked", early |-> (stops = 0)])
    /\ UNCHANGED <<workload, config, pc, calls, dsub, sub, ctxDone, wg, ncClosed,
                   subs, units, sent, stops, stopsDone, starts, track, atStop, net,
                   probe, scan>>

\* the receive completes whether or not the context is done
WaitReturns_Immediately(i) ==
    /\ i \in 1..Len(waits)
    /\ waits[i].pc = "blocked"
    /\ waits' = [waits EXCEPT ![i].pc = "returned"]
    /\ UNCHANGED <<workload, config, pc, calls, dsub, sub, ctxDone, wg, ncClosed,
                   subs, units, sent, stops, stopsDone, starts, track, atStop, net,
                   probe, scan>>

\* line 166: the receive from v.ctx.Done() completes once the context is done
WaitReturns(i) ==
    /\ i \in 1..Len(waits)
    /\ waits[i].pc = "blocked"
    /\ ctxDone
    /\ waits' = [waits EXCEPT ![i].pc = "returned"]
    /\ UNCHANGED <<workload, config, pc, calls, dsub, sub, ctxDone, wg, ncClosed,
                   subs, units, sent, stops, stopsDone, starts, track, atStop, net,
                   probe, scan>>

InitWait ==
    /\ Constructed
    /\ Len(workload) = 1
    /\ ~config.ProcessStartupMessages
    /\ track = FALSE
    /\ net = "reliable"

NextWait ==
    \/ Produce
    \/ Start
    \/ Subscribe
    \/ \E i \in 1..Len(subs) : Handler(i)
    \/ \E u \in units : ProcessMessage(u)
    \/ StopCancel
    \/ StopUnsubscribe
    \/ StopWait
    \/ StopClose
    \/ Wait
    \/ \E i \in 1..MaxWaits : WaitReturns(i)

SpecWait ==
    /\ InitWait
    /\ [][NextWait]_vars
    /\ \A i \in 1..MaxWaits : WF_vars(WaitReturns(i))

(***************************************************************************)
(* The Scanner.  scan.listing is what the hosting API holds of the         *)
(* organization, page by page; scan.page is opt.Page, scan.allRepos the    *)
(* slice of the same name, scan.next the position of the publish loop,     *)
(* scan.calls the calls of s.nc.Publish in order, scan.ret what            *)
(* ScanRepositories returned, scan.closed whether s.nc is closed.          *)
(***************************************************************************)
NATSSubject == "github.repositories"
ListError == "failed to list repositories"

\* the repositories of the organization
ListedRepos ==
    {[Name |-> "demo", CloneURL |-> HttpsDemoURL, Language |-> "Go", Topics |-> <<>>],
     [Name |-> "lib", CloneURL |-> HttpsDemoURL, Language |-> "", Topics |-> <<"sec">>]}

Pages == UNION {[1..n -> ListedRepos] : n \in 0..MaxPerPage}
Listings == UNION {[1..n -> Pages] : n \in 1..MaxPages}

\* a successful s.ghClient.Repositories.ListByOrg: page 0 means the first page,
\* NextPage is 0 on the last page
ListByOrg(listing, page) ==
    LET p == IF page = 0 THEN 1 ELSE page
    IN  [repos |-> listing[p],
         NextPage |-> IF p < Len(listing) THEN p + 1 ELSE 0]

\* lines 225-234: the Repository made of a listed repository
ConvertRepository(repo) ==
    [Name |-> repo.Name, CloneURL |-> repo.CloneURL,
     Language |-> repo.Language, Topics |-> repo.Topics]

\* s.nc.Publish fails on a closed connection
ScanPublish(repo, closed) ==
    [subject |-> NATSSubject, data |-> Marshal(ConvertRepository(repo)),
     ok |-> ~closed]

InitScan ==
    /\ ValidatorAbsent
    /\ probe = NoProbe
    /\ \E l \in Listings :
          scan = [pc |-> "idle", listing |-> l, page |-> 0, allRepos |-> <<>>,
                  next |-> 0, calls |-> <<>>, ret |-> "none", closed |-> FALSE]

\* lines 186-192: ScanRepositories is called
ScanRepositories ==
    /\ scan.pc = "idle"
    /\ scan' = [scan EXCEPT !.pc = "list"]
    /\ UNCHANGED <<validatorVars, probe>>

\* the listing loop keeps what it has and returns at once
ListPage_FirstPageOnly ==
    /\ scan.pc = "list"
    /\ LET r == ListByOrg(scan.listing, scan.page)
       IN  scan' = [scan EXCEPT !.allRepos = @ \o r.repos,
                                !.pc = "publish", !.next = 1]
    /\ UNCHANGED <<validatorVars, probe>>

\* lines 194-206, one turn of the listing loop in which ListByOrg succeeds
ListPage ==
    /\ scan.pc = "list"
    /\ LET r == ListByOrg(scan.listing, scan.page)
       IN  IF r.NextPage = 0
           THEN scan' = [scan EXCEPT !.allRepos = @ \o r.repos,
                                     !.pc = "publish", !.next = 1]
           ELSE scan' = [scan EXCEPT !.allRepos = @ \o r.repos,
                                     !.page = r.NextPage]
    /\ UNCHANGED <<validatorVars, probe>>

\* the repositories listed so far are published before the error is returned
ListFails_PublishesListed ==
    /\ scan.pc = "list"
    /\ scan' = [scan EXCEPT
                  !.calls = @ \o [i \in 1..Len(scan.allRepos) |->
                                     ScanPublish(scan.allRepos[i], scan.closed)],
                  !.ret = ListError, !.pc = "returned"]
    /\ UNCHANGED <<validatorVars, probe>>

\* lines 195-198, ListByOrg fails: ScanRepositories returns the error
ListFails ==
    /\ scan.pc = "list"
    /\ scan' = [scan EXCEPT !.ret = ListError, !.pc = "returned"]
    /\ UNCHANGED <<validatorVars, probe>>

\* the first error of publishRepository ends the scan
PublishRepository_AbortsOnError ==
    /\ scan.pc = "publish"
    /\ scan.next <= Len(scan.allRepos)
    /\ scan' = [scan EXCEPT
                  !.calls = Append(@, ScanPublish(scan.allRepos[scan.next],
                                                  scan.closed)),
                  !.next = @ + 1,
                  !.pc = IF scan.closed THEN "returned" ELSE @,
                  !.ret = IF scan.closed THEN "failed to publish" ELSE @]
    /\ UNCHANGED <<validatorVars, probe>>

\* lines 211-216 and 223-249, one turn of the publish loop: an error of
\* publishRepository is logged and the loop goes on
PublishRepository ==
    /\ scan.pc = "publish"
    /\ scan.next <= Len(scan.allRepos)
    /\ scan' = [scan EXCEPT
                  !.calls = Append(@, ScanPublish(scan.allRepos[scan.next],
                                                  scan.closed)),
                  !.next = @ + 1]
    /\ UNCHANGED <<validatorVars, probe>>

\* lines 218-219: the publish loop is over
ScanReturns ==
    /\ scan.pc = "publish"
    /\ scan.next > Len(scan.allRepos)
    /\ scan' = [scan EXCEPT !.ret = "nil", !.pc = "returned"]
    /\ UNCHANGED <<validatorVars, probe>>

\* lines 252-256: Scanner.Close, called by the owner at any time
Close ==
    /\ ~scan.closed
    /\ scan' = [scan EXCEPT !.closed = TRUE]
    /\ UNCHANGED <<validatorVars, probe>>

NextScan ==
    \/ ScanRepositories
    \/ ListPage
    \/ ListFails
    \/ PublishRepository
    \/ ScanReturns
    \/ Close

SpecScan == InitScan /\ [][NextScan]_vars

(***************************************************************************)
(* Vocabulary of the properties.                                           *)
(***************************************************************************)
Done(u) == u.pc = "done"

\* the payload of u decodes into a repository record
Decodes(u) == ~Unmarshal(u.msg.data).err

\* the clone URL of u's record starts with one of the two prefixes
Recognized(u) ==
    LET url == Unmarshal(u.msg.data).repo.CloneURL
    IN  HasPrefix(url, HttpsPrefix) \/ HasPrefix(url, SshPrefix)

Routable(u) == Decodes(u) /\ Recognized(u)

\* the subjects u has called Publish on, and its publishes that went out
SubjectsOf(u) == {u.pubs[i].subject : i \in 1..Len(u.pubs)}
OutboundOf(u) == {i \in 1..Len(u.pubs) : u.pubs[i].ok}

LiveSubs == {i \in 1..Len(subs) : ~subs[i].sync}
ActiveLiveSubs == {i \in LiveSubs : subs[i].active}

(***************************************************************************)
(* C1.  A ProcessMessage invocation on a message that decodes and has a    *)
(* recognized clone URL calls Publish exactly once, on the valid or on the *)
(* invalid subject and never on both; when that call succeeds there is     *)
(* exactly one outbound message for the inbound one.  Before it has        *)
(* returned, nothing has been published for it.                            *)
(***************************************************************************)
C1_ExactlyOnePublish ==
    \A u \in units :
        /\ Routable(u) /\ Done(u) =>
              /\ Len(u.pubs) = 1
              /\ u.pubs[1].subject \in {ValidReposSubject, InvalidReposSubject}
              /\ Cardinality(SubjectsOf(u)) = 1
              /\ u.pubs[1].ok => Cardinality(OutboundOf(u)) = 1
        /\ ~Done(u) => u.pubs = <<>>

C1_Witness ==
    \E u \in units :
        /\ Routable(u) /\ Done(u)
        /\ Len(u.pubs) = 1 /\ u.pubs[1].ok
        /\ u.pubs[1].subject = ValidReposSubject

(***************************************************************************)
(* C2.  Existence fail-closed: when HasAppSecConfig returns an error for a *)
(* message, ProcessMessage publishes the message on the invalid subject    *)
(* and never on the valid one.                                             *)
(***************************************************************************)
C2_FailClosed ==
    \A u \in units :
        u.chk = "error" =>
            /\ Len(u.pubs) >= 1
            /\ SubjectsOf(u) = {InvalidReposSubject}

C2_Witness ==
    \E u \in units :
        /\ u.chk = "error"
        /\ ~ctxDone
        /\ Len(u.pubs) = 1 /\ u.pubs[1].ok
        /\ u.pubs[1].subject = InvalidReposSubject

(***************************************************************************)
(* C3.  When the checker answers without error, the message goes to the    *)
(* valid subject if the answer is true and to the invalid subject if it is *)
(* false; a message is published on the valid subject only if the checker *)
(* returned (true, nil) for it.                                            *)
(***************************************************************************)
C3_RoutedByAnswer ==
    \A u \in units :
        /\ u.chk = "true" => Len(u.pubs) >= 1 /\ SubjectsOf(u) = {ValidReposSubject}
        /\ u.chk = "false" => Len(u.pubs) >= 1 /\ SubjectsOf(u) = {InvalidReposSubject}
        /\ ValidReposSubject \in SubjectsOf(u) => u.chk = "true"

C3_Witness ==
    \E u \in units :
        /\ u.chk = "false"
        /\ Len(u.pubs) = 1 /\ u.pubs[1].ok
        /\ u.pubs[1].subject = InvalidReposSubject

(***************************************************************************)
(* C4.  Payload preservation: the bytes ProcessMessage publishes, on       *)
(* either subject, are the bytes of the inbound message it was given.      *)
(***************************************************************************)
C4_PayloadPreserved ==
    \A u \in units :
        \A i \in 1..Len(u.pubs) : u.pubs[i].data = u.msg.data

\* both routing outcomes, for a payload that encoding the decoded record again
\* would change
C4_Witness ==
    \E u, v \in units :
        /\ u.pubs # <<>> /\ u.pubs[1].subject = ValidReposSubject
        /\ v.pubs # <<>> /\ v.pubs[1].subject = InvalidReposSubject
        /\ u.pubs[1].data = u.msg.data /\ v.pubs[1].data = v.msg.data
        /\ Marshal(Unmarshal(u.msg.data).repo) # u.msg.data
        /\ Marshal(Unmarshal(v.msg.data).repo) # v.msg.data

LiveUnits == {u \in units : u.src = "live"}

\* u has returned, having called Publish once if its message can be routed
\* and not at all if it cannot
Completed(u) == Done(u) /\ Len(u.pubs) = (IF Routable(u) THEN 1 ELSE 0)

\* an invocation stays the same invocation, and once it has returned its
\* record does not change
UnitsKept ==
    \A u \in units :
        \E v \in units' : Key(v) = Key(u) /\ (Done(u) => v = u)

(***************************************************************************)
(* C5.  Graceful shutdown completeness.  As stated: the K live units in    *)
(* flight when Stop is invoked have all completed, each having published   *)
(* exactly once, when Stop's wait lets it go on to return.                 *)
(***************************************************************************)
C5_EachPublishedOnce ==
    [][(pc = "stopWait" /\ pc' = "stopClose") =>
          \A u \in units : Key(u) \in atStop => Done(u) /\ Len(u.pubs) = 1]_vars

(***************************************************************************)
(* C5, amended.  The K live units in flight when Stop is invoked have all  *)
(* completed before Stop returns, each having called Publish exactly once  *)
(* if its message decodes and has a recognized clone URL and not at all    *)
(* otherwise; a completed unit stays as it completed.                      *)
(***************************************************************************)
C5_ShutdownCompleteness ==
    [][/\ (pc = "stopWait" /\ pc' = "stopClose") =>
              \A k \in atStop : \E u \in units : Key(u) = k /\ Completed(u)
       /\ UnitsKept]_vars

\* Stop is about to pass its wait; it was invoked with two units in flight,
\* one that has published and one whose message does not decode
C5_Witness ==
    /\ pc = "stopWait"
    /\ wg = 0
    /\ Cardinality(atStop) >= 2
    /\ \E u, v \in units :
          /\ Key(u) \in atStop /\ Key(v) \in atStop
          /\ Completed(u) /\ Len(u.pubs) = 1 /\ u.pubs[1].ok
          /\ Completed(v) /\ ~Decodes(v) /\ v.pubs = <<>>

(***************************************************************************)
(* C6.  No new processing unit is spawned after Stop begins: once Stop has *)
(* been invoked the handler of the live subscription never again adds to   *)
(* the in-flight counter or starts a ProcessMessage goroutine.             *)
(***************************************************************************)
C6_NoSpawnAfterStop ==
    [][stops > 0 =>
          /\ wg' <= wg
          /\ \A v \in units' : v.src = "live" => \E u \in units : Key(u) = Key(v)]_vars

C8_NoReturnToLive ==
    /\ stops > 0 => ActiveLiveSubs = {}
    /\ \A k \in 1..Len(starts) : starts[k].afterStops > 0 => starts[k].res # "ok"

(***************************************************************************)
(* C9.  Stop performs its steps in strict order: the context is cancelled  *)
(* first, then the live subscription is unsubscribed, then Stop waits      *)
(* until the in-flight counter is zero, and only then is the connection    *)
(* closed.                                                                 *)
(***************************************************************************)
C9_StopOrder ==
    [][/\ (ctxDone' /\ ~ctxDone) => pc = "idle" /\ pc' = "stopUnsubscribe"
       /\ pc' = "stopUnsubscribe" => ctxDone'
       /\ (pc = "stopUnsubscribe" /\ pc' # pc) =>
              /\ ctxDone
              /\ pc' = "stopWait"
              /\ sub # 0 => ~subs'[sub].active
              /\ ncClosed' = ncClosed
       /\ (pc = "stopWait" /\ pc' # pc) =>
              /\ ctxDone
              /\ sub # 0 => ~subs[sub].active
              /\ wg = 0
              /\ pc' = "stopClose"
              /\ ncClosed' = ncClosed
       /\ (ncClosed' /\ ~ncClosed) =>
              /\ pc = "stopClose"
              /\ ctxDone
              /\ sub # 0 => ~subs[sub].active
       /\ (pc = "stopClose" /\ pc' # pc) => ncClosed' /\ pc' = "idle"]_vars

\* a Stop that had a live subscription to unsubscribe and units to wait for
\* has gone through all its steps
C9_Witness ==
    /\ pc = "idle"
    /\ stopsDone = 1
    /\ ctxDone /\ ncClosed
    /\ sub # 0 /\ ~subs[sub].active
    /\ \E u \in LiveUnits : Completed(u) /\ u.pubs # <<>>

(***************************************************************************)
(* C10.  Decode error: when the payload cannot be decoded into a           *)
(* repository record, ProcessMessage returns an error, does not call the   *)
(* checker and publishes on neither subject.                               *)
(***************************************************************************)
C10_DecodeError ==
    \A u \in units :
        ~Decodes(u) =>
            /\ u.nchk = 0 /\ u.chk = "none"
            /\ u.pubs = <<>>
            /\ Done(u) => u.ret = "decodeError"

C10_Witness ==
    \E u, v \in units :
        /\ ~Decodes(u) /\ Done(u) /\ u.src = "drain"
        /\ ~Decodes(v) /\ Done(v) /\ v.src = "live"

(***************************************************************************)
(* C11.  URL-parse error: when the record's clone URL starts with neither  *)
(* prefix, owner extraction fails with an error, ProcessMessage returns an *)
(* error, the checker is not called and nothing is published on either     *)
(* subject.                                                                *)
(***************************************************************************)
C11_UrlError ==
    \A u \in units :
        Decodes(u) /\ ~Recognized(u) =>
            /\ extractOwnerFromURL(Unmarshal(u.msg.data).repo.CloneURL).err
            /\ u.nchk = 0 /\ u.chk = "none"
            /\ u.pubs = <<>>
            /\ Done(u) => u.ret = "urlError"

\* the same unrecognized URL processed by a drain and by a live subscription
C11_Witness ==
    \E u, v \in units :
        /\ Decodes(u) /\ ~Recognized(u) /\ Done(u) /\ u.src = "drain"
        /\ Decodes(v) /\ ~Recognized(v) /\ Done(v) /\ v.src = "live"

(***************************************************************************)
(* C12.  Not-found is not an error: HasAppSecConfig returns (false, nil)   *)
(* when the remote call fails with a 404 response, (true, nil) when it     *)
(* succeeds and (false, error) for every other failure; so the error is    *)
(* nil exactly when the existence question was answered.                   *)
(***************************************************************************)
C12_NotFoundIsNotError ==
    probe.fn = "HasAppSecConfig" /\ probe.done =>
        LET r == probe.arg
            res == probe.res
            notFound == r.err /\ r.resp /\ r.status = StatusNotFound
        IN  /\ notFound => res = [has |-> FALSE, err |-> FALSE]
            /\ ~r.err => res = [has |-> TRUE, err |-> FALSE]
            /\ (r.err /\ ~notFound) => res = [has |-> FALSE, err |-> TRUE]
            /\ ~res.err <=> (~r.err \/ notFound)

C12_Witness ==
    /\ probe.fn = "HasAppSecConfig" /\ probe.done
    /\ probe.arg.err /\ probe.arg.resp /\ probe.arg.status = StatusNotFound
    /\ probe.res = [has |-> FALSE, err |-> FALSE]

(***************************************************************************)
(* C13.  Owner extraction: for every clone URL of the form                 *)
(* https://github.com/{owner}/{repo} or git@github.com:{owner}/{repo},     *)
(* with or without a trailing .git, extractOwnerFromURL returns exactly    *)
(* {owner} and no error.                                                   *)
(***************************************************************************)
C13_OwnerExtracted ==
    probe.fn = "extractOwnerFromURL" /\ probe.done =>
        probe.res = [err |-> FALSE, owner |-> probe.arg.owner]

\* an SSH URL without .git whose owner holds a dot
C13_Witness ==
    /\ probe.fn = "extractOwnerFromURL" /\ probe.done
    /\ probe.arg.prefix = SshPrefix /\ probe.arg.suffix = <<>>
    /\ \E i \in 1..Len(probe.arg.owner) : probe.arg.owner[i] = "."
    /\ probe.res.owner = probe.arg.owner

\* the outcome the message of u and the answer of its own check call for
RoutedOnItsOwn(u) ==
    IF Routable(u)
    THEN /\ Len(u.pubs) = 1
         /\ u.pubs[1].data = u.msg.data
         /\ u.pubs[1].subject =
                (IF u.chk = "true" THEN ValidReposSubject ELSE InvalidReposSubject)
         /\ u.ret = (IF u.pubs[1].ok THEN "nil" ELSE "publishError")
    ELSE /\ u.pubs = <<>>
         /\ u.ret = (IF Decodes(u) THEN "urlError" ELSE "decodeError")

\* the invocation u returns in this step
Returns(u) == ~Done(u) /\ \E v \in units' : Key(v) = Key(u) /\ Done(v)

(***************************************************************************)
(* C14.  Per-message isolation: an error in processing one message never   *)
(* stops the pipeline and never changes the outcome of another message.    *)
(* When an invocation returns, with or without error, no other invocation  *)
(* changes, no subscription and no pending message is touched, the context *)
(* and the connection are left alone, the drain goes on to its next pull   *)
(* and the live phase only loses the unit; and every invocation ends with  *)
(* the outcome its own message and its own check call for.                 *)
(***************************************************************************)
C14_Isolation ==
    /\ [][\A u \in units :
             Returns(u) =>
                /\ \A w \in units \ {u} : w \in units'
                /\ Cardinality(units') = Cardinality(units)
                /\ subs' = subs
                /\ ctxDone' = ctxDone /\ ncClosed' = ncClosed
                /\ u.src = "drain" => pc = "process" /\ pc' = "pull" /\ dsub' = dsub
                /\ u.src = "live" => pc' = pc /\ wg' = wg - 1]_vars
    /\ [](\A u \in units : Done(u) => RoutedOnItsOwn(u))

\* in a drain and on a live subscription, a message that fails is followed by
\* one that is routed to the valid subject
C14_Witness ==
    \E d, e, u, v \in units :
        /\ d.src = "drain" /\ e.src = "drain" /\ d.via = e.via /\ d.n < e.n
        /\ d.ret = "decodeError"
        /\ e.ret = "nil" /\ e.pubs[1].subject = ValidReposSubject
        /\ u.src = "live" /\ v.src = "live" /\ u.via = v.via /\ u.n < v.n
        /\ u.ret = "decodeError"
        /\ v.ret = "nil" /\ v.pubs[1].subject = ValidReposSubject

\* the returned record of the invocation u
ReturnedAs(u) == CHOOSE v \in units' : Key(v) = Key(u)

(***************************************************************************)
(* C15.  A live unit whose publish fails still completes and decrements    *)
(* the in-flight counter, so that a Stop invoked afterwards is not blocked *)
(* by it: the step in which such a unit returns takes one from the         *)
(* counter, and the counter is at all times the number of live units that  *)
(* have not returned, so that units which failed to publish never keep     *)
(* the wait of Stop from passing.                                          *)
(***************************************************************************)
C15_FailedPublishCompletes ==
    /\ [][\A u \in LiveUnits :
             Returns(u) /\ ReturnedAs(u).ret = "publishError" =>
                 /\ Done(ReturnedAs(u))
                 /\ wg' = wg - 1]_vars
    /\ [](wg = Cardinality(InFlight))

\* the link went down, a live unit got its answer before the context was
\* cancelled and failed to publish on the open connection, and the Stop
\* called after that has passed its wait
C15_Witness ==
    /\ net = "down"
    /\ stops = 1
    /\ pc = "stopClose"
    /\ ~ncClosed
    /\ \E u \in LiveUnits :
          Done(u) /\ u.chk = "true" /\ u.ret = "publishError"


\* the live subscriptions made by the k-th Start
LiveSubsOf(k) == {i \in LiveSubs : subs[i].gen = k}

\* the k-th Start has returned the error of its drain
DrainFailed(k) == k \in 1..Len(starts) /\ starts[k].res = "drainError"

(***************************************************************************)
(* C16.  A failure of the synchronous drain other than a pull timeout      *)
(* (SubscribeSync fails, or NextMsg fails with another error) makes Start  *)
(* return an error without ever creating the live subscription: a Start    *)
(* that returned the drain's error has made no live subscription and has   *)
(* not set v.sub, and while a drain is going on the Start it belongs to    *)
(* has no live subscription yet.                                           *)
(***************************************************************************)
C16_DrainFailureAbortsStart ==
    /\ \A k \in 1..Len(starts) :
          DrainFailed(k) =>
             /\ LiveSubsOf(k) = {}
             /\ sub # 0 => subs[sub].gen # k
    /\ pc \in {"pull", "process"} => LiveSubsOf(Gen) = {}
    /\ \A i \in 1..Len(subs) :
          subs[i].gen \in 1..Len(starts) /\ ~subs[i].sync
             => starts[subs[i].gen].res = "ok"

\* a Start whose drain routed a message and then failed to receive the next
C16_Witness ==
    \E k \in 1..Len(starts) :
       /\ DrainFailed(k)
       /\ \E i \in 1..Len(subs) : subs[i].sync /\ subs[i].gen = k
       /\ \E u \in units : u.src = "drain" /\ u.gen = k /\ Done(u)


\* a Stop returns that was invoked on a connection already closed
StopReturnsOnClosed == stopsDone' = stopsDone + 1 /\ ncClosed

(***************************************************************************)
(* C17.  Closing is idempotent: a Stop invoked when the connection is      *)
(* already closed (a second Stop) terminates and leaves the controller     *)
(* Closed, with the connection closed, no active subscription and zero     *)
(* in-flight units when it returns.                                        *)
(***************************************************************************)
C17_StopIdempotent ==
    [][StopReturnsOnClosed =>
          /\ pc' = "idle"
          /\ ncClosed'
          /\ \A i \in 1..Len(subs') : ~subs'[i].active
          /\ wg' = 0]_vars


(***************************************************************************)
(* C18.  A repository record whose language is empty and whose topics are  *)
(* empty or absent serializes to JSON without the language key and without *)
(* the topics key, and decoding that JSON yields a record with empty       *)
(* language and no topics; a key is left out only when its field is empty. *)
(***************************************************************************)
C18_EmptyFieldsOmitted ==
    probe.fn = "RoundTrip" /\ probe.done =>
        LET repo == probe.arg
            data == probe.res.data
            back == probe.res.back
        IN  /\ repo.Language = "" => "language" \notin data.has
            /\ Len(repo.Topics) = 0 => "topics" \notin data.has
            /\ repo.Language = "" /\ Len(repo.Topics) = 0 =>
                   /\ data.has = RequiredKeys
                   /\ ~back.err
                   /\ back.repo.Language = ""
                   /\ Len(back.repo.Topics) = 0
                   /\ back.repo.Name = repo.Name
                   /\ back.repo.CloneURL = repo.CloneURL
            /\ repo.Language # "" => "language" \in data.has
            /\ Len(repo.Topics) > 0 => "topics" \in data.has

\* a record with no language and no topics has been written and read back
C18_Witness ==
    /\ probe.fn = "RoundTrip" /\ probe.done
    /\ probe.arg.Language = "" /\ probe.arg.Topics = <<>>
    /\ probe.res.data.has = RequiredKeys
    /\ probe.res.back.repo.Topics = <<>>


RECURSIVE Flatten(_)
\* the repositories of a listing in the order of the pages
Flatten(listing) ==
    IF listing = <<>> THEN <<>> ELSE Head(listing) \o Flatten(Tail(listing))

\* the messages of the scan that went out on the subject
ScanOutbound == {i \in 1..Len(scan.calls) : scan.calls[i].ok}

(***************************************************************************)
(* C19.  As stated: ScanRepositories follows pagination until the hosting  *)
(* API reports no next page and then publishes exactly one message per     *)
(* repository of every page, so that every repository listed on any page   *)
(* is published once to the configured subject.                            *)
(***************************************************************************)
C19_EveryListedPublished ==
    scan.ret = "nil" =>
        /\ scan.allRepos = Flatten(scan.listing)
        /\ Len(scan.calls) = Len(scan.allRepos)
        /\ ScanOutbound = 1..Len(scan.allRepos)
        /\ \A i \in 1..Len(scan.calls) :
              /\ scan.calls[i].subject = NATSSubject
              /\ scan.calls[i].data = Marshal(ConvertRepository(scan.allRepos[i]))

(***************************************************************************)
(* C19, amended.  ScanRepositories follows pagination until the hosting    *)
(* API reports no next page, publishing nothing while it lists, and then   *)
(* calls Publish exactly once per repository of every page, in the order   *)
(* of the listing and on the configured subject; the calls made while the  *)
(* connection is open put one message each on the subject, the calls made  *)
(* after the connection was closed put none.                               *)
(***************************************************************************)
C19_EveryListedAttempted ==
    /\ scan.pc \in {"idle", "list"} => scan.calls = <<>>
    /\ scan.pc = "publish" => scan.allRepos = Flatten(scan.listing)
    /\ scan.ret = "nil" =>
          /\ scan.allRepos = Flatten(scan.listing)
          /\ Len(scan.calls) = Len(scan.allRepos)
          /\ \A i \in 1..Len(scan.calls) :
                /\ scan.calls[i].subject = NATSSubject
                /\ scan.calls[i].data = Marshal(ConvertRepository(scan.allRepos[i]))
          /\ ~scan.closed => ScanOutbound = 1..Len(scan.allRepos)
          /\ \A i, j \in 1..Len(scan.calls) :
                i < j /\ scan.calls[j].ok => scan.calls[i].ok

\* a scan of two pages with repositories on both has returned, with every
\* repository published
C19_Witness ==
    /\ scan.ret = "nil"
    /\ Len(scan.listing) = 2
    /\ Len(scan.listing[1]) > 0 /\ Len(scan.listing[2]) > 0
    /\ scan.page = 2
    /\ Len(scan.calls) = Len(scan.listing[1]) + Len(scan.listing[2])
    /\ ScanOutbound = 1..Len(scan.calls)

(***************************************************************************)
(* C20.  If listing any page of repositories fails, ScanRepositories       *)
(* returns a "failed to list repositories" error and publishes no          *)
(* repository of that scan, the repositories of the pages already listed   *)
(* included.                                                               *)
(***************************************************************************)
C20_ListFailurePublishesNothing ==
    /\ scan.ret = ListError => scan.pc = "returned" /\ scan.calls = <<>>
    /\ scan.pc = "returned" /\ scan.allRepos # Flatten(scan.listing)
          => scan.ret = ListError

\* the second page failed to list after the first page had listed repositories
C20_Witness ==
    /\ scan.ret = ListError
    /\ scan.page = 2
    /\ Len(scan.allRepos) > 0
    /\ scan.calls = <<>>

\* the calls of Publish of the scan that failed
ScanFailed == {i \in 1..Len(scan.calls) : ~scan.calls[i].ok}

(***************************************************************************)
(* C21.  ScanRepositories returns success even when publishing individual  *)
(* repositories fails: a failed publish does not abort the scan, the       *)
(* repositories after it are still attempted, one call each, and the scan  *)
(* returns nil.                                                            *)
(***************************************************************************)
C21_PublishFailureNotFatal ==
    /\ scan.pc = "publish" => Len(scan.calls) = scan.next - 1
    /\ ScanFailed # {} =>
          /\ scan.pc \in {"publish", "returned"}
          /\ scan.pc = "returned" =>
                /\ scan.ret = "nil"
                /\ Len(scan.calls) = Len(scan.allRepos)

\* the scan has returned nil after a publish that went out, a publish that
\* failed and one more attempt after the failed one
C21_Witness ==
    /\ scan.ret = "nil"
    /\ \E i, j \in ScanFailed : i < j
    /\ 1 \in ScanOutbound


\* what Load gave for a variable that is v in the environment and has the
\* default d: the default when v is unset (or empty), else v unchanged
TakesDefault(field, v, d) ==
    /\ v = "" => field = d
    /\ v # "" => field = v

(***************************************************************************)
(* C22.  config.Load returns an error exactly when GITHUB_ORG or           *)
(* GITHUB_TOKEN is empty; otherwise each unset optional variable takes its *)
(* default (NATS_URL nats://localhost:4222, NATS_SUBJECT                   *)
(* github.repositories, CRON_SCHEDULE "0 0 * * 0", the valid and invalid   *)
(* subjects repos.valid and repos.invalid), each set variable is returned  *)
(* unchanged, and RunOnStartup is true only when RUN_ON_STARTUP is exactly *)
(* "true".                                                                 *)
(***************************************************************************)
C22_LoadDefaults ==
    probe.fn = "Load" /\ probe.done =>
        LET env == probe.arg
            cfg == probe.res.cfg
        IN  /\ probe.res.err # "" <=> env.GITHUB_ORG = "" \/ env.GITHUB_TOKEN = ""
            /\ probe.res.err # "" <=> cfg = NoConfig
            /\ probe.res.err = "" =>
                  /\ cfg.GitHubOrg = env.GITHUB_ORG
                  /\ cfg.GitHubToken = env.GITHUB_TOKEN
                  /\ TakesDefault(cfg.NATSUrl, env.NATS_URL, "nats://localhost:4222")
                  /\ TakesDefault(cfg.NATSSubject, env.NATS_SUBJECT,
                                  "github.repositories")
                  /\ TakesDefault(cfg.CronSchedule, env.CRON_SCHEDULE, "0 0 * * 0")
                  /\ TakesDefault(cfg.ValidReposSubject, env.VALID_REPOS_SUBJECT,
                                  "repos.valid")
                  /\ TakesDefault(cfg.InvalidReposSubject,
                                  env.INVALID_REPOS_SUBJECT, "repos.invalid")
                  /\ cfg.RunOnStartup <=> env.RUN_ON_STARTUP = "true"

\* Load has succeeded on an environment that sets some optional variables and
\* leaves others unset, with RUN_ON_STARTUP set to something other than "true"
C22_Witness ==
    /\ probe.fn = "Load" /\ probe.done
    /\ probe.res.err = ""
    /\ probe.arg.NATS_URL = "" /\ probe.arg.NATS_SUBJECT = "custom.repos"
    /\ probe.arg.VALID_REPOS_SUBJECT = "" /\ probe.arg.CRON_SCHEDULE # ""
    /\ probe.arg.RUN_ON_STARTUP = "TRUE"
    /\ probe.res.cfg.NATSUrl = "nats://localhost:4222"
    /\ probe.res.cfg.NATSSubject = "custom.repos"
    /\ ~probe.res.cfg.RunOnStartup


\* a unit called Publish and the call failed; on a reliable link that is a call
\* on the closed connection
PublishedOnClosed(u) == \E i \in 1..Len(u.pubs) : ~u.pubs[i].ok

(***************************************************************************)
(* C23.  The bus connection is closed only when the in-flight counter is   *)
(* zero, and after the connection has been closed no processing unit is    *)
(* running or attempts a publish, under every interleaving of live         *)
(* deliveries with Stop.                                                   *)
(***************************************************************************)
C23_ClosedOnlyWhenIdle ==
    /\ [][~ncClosed /\ ncClosed' => wg = 0]_vars
    /\ [](ncClosed =>
            /\ wg = 0
            /\ \A u \in units : Done(u) /\ ~PublishedOnClosed(u))


\* the live units spawned and the live units returning in a step
Spawned == {Key(v) : v \in {w \in units' : w.src = "live"}} \
           {Key(u) : u \in LiveUnits}
Returning == {u \in LiveUnits : Returns(u)}

(***************************************************************************)
(* C24.  In-flight accounting: in every reachable state the in-flight      *)
(* counter equals the number of live-phase units that have been spawned    *)
(* and have not yet completed and is never negative; it is incremented     *)
(* once per delivered message, in the step that spawns the unit, and       *)
(* decremented once when the unit ends, whether ProcessMessage succeeded   *)
(* or failed, and it changes in no other step.                             *)
(***************************************************************************)
C24_InFlightAccounting ==
    /\ [](/\ wg >= 0
          /\ wg = Cardinality({u \in LiveUnits : ~Done(u)})
          /\ \A u, v \in LiveUnits : Key(u) = Key(v) => u = v)
    /\ [][/\ wg' = wg + Cardinality(Spawned) - Cardinality(Returning)
          /\ Cardinality(Spawned) + Cardinality(Returning) <= 1
          /\ \A u \in units : u.src = "drain" /\ Returns(u) => wg' = wg]_vars

\* one unit is in flight, and a unit whose ProcessMessage failed has given its
\* count back
C24_Witness ==
    /\ wg = 1
    /\ Cardinality(LiveUnits) >= 2
    /\ \E u \in LiveUnits : Done(u) /\ u.ret # "nil"
    /\ \E u \in LiveUnits : ~Done(u)


\* ProcessExistingMessages is running
Draining == pc \in {"pull", "process"}

\* the ProcessMessage calls that have not returned
Active == {u \in units : ~Done(u)}

(***************************************************************************)
(* C25.  The draining phase is strictly serial: while                      *)
(* ProcessExistingMessages runs, at most one ProcessMessage call is        *)
(* active, no live-phase processing unit exists and the in-flight counter  *)
(* is zero.                                                                *)
(***************************************************************************)
C25_DrainSerial ==
    Draining =>
        /\ Cardinality(Active) <= 1
        /\ LiveUnits = {}
        /\ wg = 0


\* the ProcessMessage calls of the drain made on the subscription i
DrainUnits(i) == {u \in units : u.src = "drain" /\ u.via = i}

(***************************************************************************)
(* C26.  Within the draining phase messages are processed in strict        *)
(* delivery order: the messages are handed to ProcessMessage in the order  *)
(* in which they were delivered, and the processing of the (i+1)-th pulled *)
(* message does not start until that of the i-th has returned, its routing *)
(* decision published or its processing failed; so the publishes of the    *)
(* drain are made in inbound delivery order.                               *)
(***************************************************************************)
C26_DrainInOrder ==
    \A i \in 1..Len(subs) :
        \A u, v \in DrainUnits(i) :
            u.n < v.n =>
               /\ u.msg.id < v.msg.id
               /\ Done(u)
               /\ Routable(u) => Len(u.pubs) = 1

\* a drain has pulled two messages: the first has been published and the
\* second is being processed
C26_Witness ==
    \E i \in 1..Len(subs) :
        \E u, v \in DrainUnits(i) :
            /\ u.n = 1 /\ v.n = 2
            /\ Done(u) /\ Len(u.pubs) = 1 /\ u.pubs[1].ok
            /\ ~Done(v) /\ Routable(v)


\* a pull of the drain finds a message, or finds none within the timeout
PullHasMessage == pc = "pull" /\ subs[dsub].pending # <<>>
PullTimesOut == pc = "pull" /\ subs[dsub].pending = <<>>

\* the drain returns nil and Start goes on to the live subscription
DrainSucceeds == Draining /\ pc' = "subscribe"

\* the drain returns an error and Start returns it
DrainFails ==
    /\ Draining
    /\ pc' = "idle"
    /\ Len(starts') = Len(starts) + 1
    /\ starts'[Len(starts')].res = "drainError"

(***************************************************************************)
(* C27.  The drain ends exactly at the first pull that times out with no   *)
(* message available: it does not end with success while a pull returns a  *)
(* message, whatever the number of messages pulled before, and after a     *)
(* timed-out pull it makes no further pull and returns success.            *)
(***************************************************************************)
C27_DrainEndsAtTimeout ==
    /\ [][/\ DrainSucceeds => PullTimesOut
          /\ PullHasMessage /\ pc' # pc =>
                \/ pc' = "process" /\ Cardinality(units') = Cardinality(units) + 1
                \/ DrainFails
          /\ PullTimesOut /\ pc' # pc =>
                \/ /\ pc' = "subscribe"
                   /\ dsub' = 0
                   /\ ~subs'[dsub].active
                   /\ units' = units
                \/ DrainFails
          /\ \A i \in 1..Len(subs) :
                subs[i].sync /\ ~subs[i].active =>
                   {u \in units' : u.via = i} = {u \in units : u.via = i}]_vars
    /\ [](\A i \in 1..Len(subs) :
             subs[i].sync /\ i # dsub => ~subs[i].active /\ subs[i].pending = <<>>)

\* a drain that pulled MaxMsgs messages has ended at the pull that timed out
C27_Witness ==
    /\ pc = "subscribe"
    /\ \E i \in 1..Len(subs) :
          /\ subs[i].sync /\ ~subs[i].active
          /\ Cardinality(DrainUnits(i)) = MaxMsgs
          /\ \A u \in DrainUnits(i) : Done(u)


\* the drain unit u returns an error from ProcessMessage
DrainUnitFails(u) ==
    /\ u.src = "drain"
    /\ Returns(u)
    /\ ReturnedAs(u).ret # "nil"

(***************************************************************************)
(* C28.  A ProcessMessage error during the drain does not stop the drain:  *)
(* every message pulled by the sync subscription is handed to              *)
(* ProcessMessage, and after a failing message the drain goes on with the  *)
(* next pull on the same subscription; no error of ProcessMessage makes    *)
(* the drain or Start return an error, so that Start still proceeds to the *)
(* live subscription.                                                      *)
(***************************************************************************)
C28_DrainSurvivesErrors ==
    /\ [][/\ \A u \in units :
                DrainUnitFails(u) =>
                   /\ pc = "process" /\ pc' = "pull"
                   /\ dsub' = dsub /\ subs' = subs /\ subs[dsub].active
                   /\ starts' = starts
          /\ (/\ PullHasMessage
              /\ subs'[dsub].active
              /\ subs'[dsub].pending = Tail(subs[dsub].pending)) =>
                \E v \in units' \ units :
                   /\ v.msg = Head(subs[dsub].pending)
                   /\ v.src = "drain" /\ v.via = dsub /\ v.pc = "run"
          /\ DrainFails => pc = "pull" \/ pc = "idle"]_vars
    /\ [](pc = "process" => \E u \in DrainUnits(dsub) : ~Done(u))

\* a Start has made its live subscription after a drain whose first message
\* failed in ProcessMessage and whose second message was published
C28_Witness ==
    \E k \in 1..Len(starts) :
       /\ starts[k].res = "ok"
       /\ LiveSubsOf(k) # {}
       /\ \E u, v \in units :
             /\ u.src = "drain" /\ v.src = "drain" /\ u.gen = k /\ v.gen = k
             /\ u.n = 1 /\ u.ret = "decodeError"
             /\ v.n = 2 /\ v.ret = "nil" /\ Len(v.pubs) = 1


\* the sync subscriptions of the drains
DrainSubs == {i \in 1..Len(subs) : subs[i].sync}

(***************************************************************************)
(* C29.  The synchronous drain subscription is unsubscribed on every exit  *)
(* path of the drain (pull timeout and receive error) before Start creates *)
(* the live subscription; the drain subscription and the live subscription *)
(* are never both active, so no inbound message is handed to               *)
(* ProcessMessage twice by one controller.                                 *)
(***************************************************************************)
C29_DrainThenLive ==
    /\ ~Draining => \A i \in DrainSubs : ~subs[i].active
    /\ \A i \in DrainSubs : subs[i].active => ActiveLiveSubs = {}
    /\ \A u, v \in units : u.msg.id = v.msg.id => u = v


(***************************************************************************)
(* C30.  At any time the controller has at most one active live            *)
(* subscription on the inbound subject and its stored handle refers to     *)
(* that subscription, for every sequence of Start and Stop invocations     *)
(* (Start invoked more than once included); so Stop unsubscribes every     *)
(* live subscription the controller created.                               *)
(***************************************************************************)
C30_OneLiveSubscription ==
    /\ Cardinality(ActiveLiveSubs) <= 1
    /\ ActiveLiveSubs \subseteq {sub}
    /\ pc \in {"stopWait", "stopClose"} => ActiveLiveSubs = {}


(***************************************************************************)
(* C31.  When the startup-drain flag is disabled, ProcessExistingMessages  *)
(* opens no synchronous subscription, pulls and processes no message,      *)
(* publishes nothing and returns success, and Start goes directly to       *)
(* creating the live subscription: no Start is ever in the drain, none     *)
(* returns the error of a drain, and every ProcessMessage call is one of   *)
(* a live handler.                                                         *)
(***************************************************************************)
C31_DrainDisabledIsNoOp ==
    ~config.ProcessStartupMessages =>
        /\ DrainSubs = {}
        /\ dsub = 0
        /\ ~Draining
        /\ \A u \in units : u.src = "live"
        /\ \A k \in 1..Len(starts) : ~DrainFailed(k)
        /\ \A k \in 1..Len(starts) :
              starts[k].res = "ok" => Cardinality(LiveSubsOf(k)) = 1

\* with the flag off a Start has made its live subscription, which has
\* handed a message to a unit that published it
C31_Witness ==
    /\ ~config.ProcessStartupMessages
    /\ Len(starts) = 1 /\ starts[1].res = "ok"
    /\ ActiveLiveSubs # {}
    /\ \E u \in LiveUnits : u.ret = "nil" /\ Len(u.pubs) = 1


\* the k-th Start has returned the error of nc.Subscribe
SubscribeFailed(k) == k \in 1..Len(starts) /\ starts[k].res = "subscribeError"

(***************************************************************************)
(* C32.  A failure to establish the live subscription after a successful   *)
(* drain makes Start return an error, with no live subscription handle     *)
(* stored and no processing unit spawned: that Start has no live           *)
(* subscription, v.sub does not refer to one of its making, no live unit   *)
(* is of its making, and when it is the only Start so far v.sub is unset   *)
(* and the in-flight counter is zero.                                      *)
(***************************************************************************)
C32_SubscribeFailureAbortsStart ==
    \A k \in 1..Len(starts) :
        SubscribeFailed(k) =>
           /\ LiveSubsOf(k) = {}
           /\ sub # 0 => subs[sub].gen # k
           /\ \A u \in LiveUnits : u.gen # k
           /\ Len(starts) = 1 /\ pc = "idle" => sub = 0 /\ LiveUnits = {} /\ wg = 0

\* a Start whose drain pulled and routed a message has failed to subscribe
C32_Witness ==
    \E k \in 1..Len(starts) :
       /\ SubscribeFailed(k)
       /\ ~ncClosed
       /\ \E u \in units :
             u.src = "drain" /\ u.gen = k /\ u.ret = "nil" /\ Len(u.pubs) = 1


\* Stop has been invoked and has not returned
Stopping == pc \in {"stopUnsubscribe", "stopWait", "stopClose"}

(***************************************************************************)
(* C33.  Stop eventually returns with the connection closed provided every *)
(* in-flight unit eventually completes, whether or not the cancellation    *)
(* aborts an in-flight check or publish; and Stop never passes its wait,   *)
(* and so never returns, while a unit that was in flight at its invocation *)
(* is still running.                                                       *)
(***************************************************************************)
C33_StopReturns ==
    /\ Stopping ~> (pc = "idle" /\ ncClosed /\ stopsDone = stops)
    /\ [][pc = "stopWait" /\ pc' # pc =>
             /\ pc' = "stopClose"
             /\ \A k \in atStop : \E u \in units : Key(u) = k /\ Done(u)]_vars

\* Stop was invoked with the units of two live subscriptions in flight; the
\* cancellation has aborted their checks, both have returned, and Stop can
\* now pass its wait
C33_Witness ==
    /\ pc = "stopWait"
    /\ wg = 0
    /\ \E u, v \in LiveUnits :
          /\ u # v
          /\ Key(u) \in atStop /\ Key(v) \in atStop
          /\ Done(u) /\ u.chk = "error" /\ Len(u.pubs) = 1
          /\ Done(v) /\ v.chk = "error" /\ Len(v.pubs) = 1


\* the repository the message of u names
RepoOf(u) == Unmarshal(u.msg.data).repo.Name

(***************************************************************************)
(* C34.  The routing decision is computed fresh per message:               *)
(* ProcessMessage calls the checker exactly once for each message that     *)
(* decodes and has a recognized clone URL, also when an earlier message    *)
(* named the same repository, and never retries a failed check; a message  *)
(* that is not routable is not checked, and each message is routed by the  *)
(* answer of its own check.                                                *)
(***************************************************************************)
C34_FreshPerMessage ==
    \A u \in units :
        /\ ~Done(u) => u.nchk = 0 /\ u.chk = "none"
        /\ Done(u) =>
              /\ u.nchk = (IF Routable(u) THEN 1 ELSE 0)
              /\ u.chk = "none" <=> ~Routable(u)
              /\ Routable(u) =>
                    /\ Len(u.pubs) = 1
                    /\ u.pubs[1].subject = ValidReposSubject <=> u.chk = "true"

\* two messages named the same repository; the check of the first failed and
\* the check of the second, made anew, found the file
C34_Witness ==
    \E u, v \in units :
        /\ Done(u) /\ Done(v)
        /\ u.msg.id < v.msg.id
        /\ RepoOf(u) = RepoOf(v)
        /\ u.nchk = 1 /\ u.chk = "error" /\ u.pubs[1].subject = InvalidReposSubject
        /\ v.nchk = 1 /\ v.chk = "true" /\ v.pubs[1].subject = ValidReposSubject


(***************************************************************************)
(* C35.  For a clone URL that matches one of the two prefixes but whose    *)
(* remainder after stripping the prefix and a trailing .git contains no    *)
(* "/", extractOwnerFromURL returns the whole remainder as owner with no   *)
(* error, the empty string when the remainder is empty; the extraction     *)
(* never fails for a URL that matches a prefix.                            *)
(***************************************************************************)
C35_BareRemainderIsOwner ==
    /\ probe.fn = "extractOwnerFromURL.bare" /\ probe.done =>
          probe.res = [err |-> FALSE, owner |-> probe.arg.rest]
    /\ probe.fn \in {"extractOwnerFromURL", "extractOwnerFromURL.bare"}
          /\ probe.done => ~probe.res.err

\* the owner of the URL that is the https prefix and .git is the empty string
C35_Witness ==
    /\ probe.fn = "extractOwnerFromURL.bare" /\ probe.done
    /\ probe.arg.url = HttpsPrefix \o GitSuffix
    /\ probe.res = [err |-> FALSE, owner |-> <<>>]


(***************************************************************************)
(* C36.  Validator.Wait blocks until the service is stopped: it never      *)
(* returns before Stop has been invoked, and once Stop has cancelled the   *)
(* shared context every pending and every later Wait returns.              *)
(***************************************************************************)
C36_WaitBlocksUntilStop ==
    /\ [](\A i \in 1..Len(waits) : waits[i].pc = "returned" =>
             stops >= 1 /\ ctxDone)
    /\ \A i \in 1..MaxWaits :
          (Len(waits) >= i /\ stops >= 1)
              ~> (Len(waits) >= i /\ waits[i].pc = "returned")

\* a Wait called before Stop and a Wait called after Stop have both returned
C36_Witness ==
    /\ Len(waits) = 2
    /\ waits[1].early /\ waits[1].pc = "returned"
    /\ ~waits[2].early /\ waits[2].pc = "returned"


\* the subscriptions that hold message id, pending
Holding(S, id) ==
    {i \in 1..Len(S) : S[i].active /\ \E k \in 1..Len(S[i].pending) : S[i].pending[k].id = id}

(***************************************************************************)
(* C37.  No inbound message is lost in the handover from drain to live:    *)
(* every message published to the inbound subject after the drain          *)
(* subscription was created and before Stop is invoked is handed to        *)
(* ProcessMessage by either the drain subscription or the live             *)
(* subscription, the messages that arrive between the drain's last         *)
(* (timed-out) pull and the creation of the live subscription included.    *)
(* A message is handed over only by a subscription that received it: while *)
(* the first Start runs or after it has succeeded, a message published     *)
(* once the drain subscription exists and before any Stop is received by   *)
(* an active subscription of the controller.                               *)
(***************************************************************************)
C37_NoLossInHandover ==
    [][(/\ sent' = sent + 1
        /\ DrainSubs # {}
        /\ stops = 0
        /\ Len(starts) <= 1
        /\ \A k \in 1..Len(starts) : starts[k].res = "ok")
       => Holding(subs', sent') # {}]_vars


\* the probed file exists in the repository the message of u names
FileExists(u) ==
    /\ Routable(u)
    /\ <<extractOwnerFromURL(Unmarshal(u.msg.data).repo.CloneURL).owner, RepoOf(u)>>
           \in ReposWithConfig

(***************************************************************************)
(* C38.  Shutdown does not change a routing outcome: a message that is in  *)
(* flight when Stop cancels the shared context is published to the valid   *)
(* subject whenever the probed file exists for its repository; the         *)
(* cancellation of the context never causes such a message to be published *)
(* to the invalid subject.                                                 *)
(***************************************************************************)
C38_ShutdownKeepsRouting ==
    \A u \in units :
        Key(u) \in atStop /\ Done(u) /\ FileExists(u) =>
            \A k \in 1..Len(u.pubs) : u.pubs[k].subject = ValidReposSubject


\* Start is running
Starting == pc \in {"pull", "process", "subscribe"}

(***************************************************************************)
(* C39.  The drain terminates and Start returns whenever only finitely     *)
(* many messages are published to the inbound subject and every            *)
(* ProcessMessage call terminates; the live subscription is never created  *)
(* before the drain has terminated.                                        *)
(***************************************************************************)
C39_DrainTerminates ==
    /\ \A n \in 0..1 : (Draining /\ Len(starts) = n) ~> (~Draining /\ Len(starts) >= n)
    /\ \A n \in 0..1 : (Starting /\ Len(starts) = n) ~> (pc = "idle" /\ Len(starts) > n)
    /\ [][\A j \in (Len(subs) + 1)..Len(subs') : ~subs'[j].sync =>
             /\ pc = "subscribe"
             /\ \A i \in DrainSubs : ~subs[i].active
             /\ \A u \in units : u.src = "drain" => Done(u)]_vars

\* Start has returned nil after a drain that processed a message
C39_Witness ==
    /\ pc = "idle"
    /\ Len(starts) = 1 /\ starts[1].res = "ok"
    /\ sub # 0 /\ subs[sub].active
    /\ \E u \in units : u.src = "drain" /\ Done(u)


\* Start returns an error in this step
StartFails ==
    /\ Len(starts') = Len(starts) + 1
    /\ starts'[Len(starts')].res # "ok"

(***************************************************************************)
(* C40.  Whenever Start returns an error (drain failure or live-subscribe  *)
(* failure), no subscription of the controller on the inbound subject      *)
(* remains active and the in-flight counter is zero, so a subsequent Stop  *)
(* returns without blocking and closes the connection.                     *)
(***************************************************************************)
C40_FailedStartLeavesNothing ==
    [][StartFails => /\ \A i \in 1..Len(subs') : ~subs'[i].active
                     /\ wg' = 0
                     /\ InFlight = {}]_vars



TypeOK ==
    /\ pc \in {"idle", "pull", "process", "subscribe", "stopUnsubscribe",
               "stopWait", "stopClose"}
    /\ wg \in Int
    /\ sub \in 0..Len(subs)
    /\ dsub \in 0..Len(subs)
    /\ track \in BOOLEAN
    /\ net \in {"reliable", "up", "down"}
    /\ ~track => atStop = {}
    /\ scan.pc \in {"none", "idle", "list", "publish", "returned"}
    /\ scan.ret \in {"none", "nil", ListError}
    /\ Len(waits) <= MaxWaits
    /\ \A i \in 1..Len(waits) : waits[i].pc \in {"blocked", "returned"}

====
